---- MODULE Spec2Model ----
(***************************************************************************)
(* A model of the portfolio tracker: the PortfolioStore of                 *)
(* src/app/portfolio.py (in-memory PortfolioFile, portfolio-id index and   *)
(* the persisted file) and the PriceService of src/app/pricing.py (TTL     *)
(* cache, retrying fetch).                                                 *)
(*                                                                         *)
(* Python strings that the code transforms (symbols, holding ids, cache    *)
(* keys) are sequences of one-character strings, so that upper(), lower(), *)
(* replace(), lstrip() and the "-k" suffix are computed, not assumed.      *)
(* Portfolio ids and names are only compared, and stay TLA+ strings.       *)
(***************************************************************************)
EXTENDS Integers, Sequences, FiniteSets, TLC

VARIABLES
    file,            \* the persisted portfolio file (file_path on disk)
    data,            \* PortfolioStore._data, the in-memory PortfolioFile
    portfolios_map,  \* PortfolioStore._portfolios, in insertion order
    last,            \* the last store call: operation, arguments, outcome
    ttl,             \* PriceService.ttl, in seconds
    max_retries,     \* PriceService.max_retries
    now,             \* the wall clock, in seconds
    cache,           \* PriceService._cache: normalized symbol -> CacheEntry
    calls,           \* the get_quotes calls in flight, each with its tasks
    package,         \* the package the PriceService is of: "app" or "portfolio_mcp"
    interval,        \* PricePoller.interval, in seconds
    task,            \* PricePoller._task: 0 for None, or the number of a loop task
    loops,           \* the _loop tasks created so far, by number
    stops,           \* the stop() calls waiting for their task to end
    adhoc,           \* the refresh_now / ensure_warm calls of tool calls in flight
    quotes,          \* PricePoller._quotes
    warm,            \* the result of the last ensure_warm, while no refresh_now followed
    plast            \* the last poller event: call or return, and its outcome

storeVars == <<file, data, portfolios_map, last>>
priceVars == <<ttl, max_retries, now, cache, calls, package>>
pollerVars == <<interval, task, loops, stops, adhoc, quotes, warm, plast>>
vars == <<file, data, portfolios_map, last, ttl, max_retries, now, cache, calls,
          package, interval, task, loops, stops, adhoc, quotes, warm, plast>>

----------------------------------------------------------------------------
(* Bounds of the model.                                                    *)

\* create_portfolio is not offered beyond this many portfolios
MaxPortfolios == 2
\* add_holding is not offered beyond this many holdings in the store
MaxHoldings == 2
\* the clock stops advancing here
MaxTime == 1
\* get_quotes is not called while this many _get_symbol tasks are in flight
MaxInFlight == 2
\* the retry loop is examined up to this many attempts
MaxAttempts == 5
\* start() is not offered once this many loop tasks were created
MaxTasks == 2
\* stop() is not called while this many stop() calls are waiting
MaxStops == 2
\* no tool call refreshes while this many of them are in flight
MaxAdhoc == 1

----------------------------------------------------------------------------
(* Python str operations on sequences of characters.                       *)

UpperChars == <<"A","B","C","D","E","F","G","H","I","J","K","L","M",
                "N","O","P","Q","R","S","T","U","V","W","X","Y","Z">>
LowerChars == <<"a","b","c","d","e","f","g","h","i","j","k","l","m",
                "n","o","p","q","r","s","t","u","v","w","x","y","z">>
Digits == <<"0","1","2","3","4","5","6","7","8","9">>

\* the upper-case letter of each lower-case letter, and the converse
UpperOf ==
    [c \in {LowerChars[i] : i \in 1..Len(LowerChars)} |->
        UpperChars[CHOOSE i \in 1..Len(LowerChars) : LowerChars[i] = c]]
LowerOf ==
    [c \in {UpperChars[i] : i \in 1..Len(UpperChars)} |->
        LowerChars[CHOOSE i \in 1..Len(UpperChars) : UpperChars[i] = c]]

UpperChar(c) == IF c \in DOMAIN UpperOf THEN UpperOf[c] ELSE c

LowerChar(c) == IF c \in DOMAIN LowerOf THEN LowerOf[c] ELSE c

RECURSIVE MapChars(_, _)
\* kind is "upper", "lower" or "dot2dash"
MapChars(s, kind) ==
    IF s = <<>> THEN <<>>
    ELSE <<CASE kind = "upper" -> UpperChar(Head(s))
             [] kind = "lower" -> LowerChar(Head(s))
             [] OTHER -> IF Head(s) = "." THEN "-" ELSE Head(s)>>
         \o MapChars(Tail(s), kind)

\* str.upper()
StrUpper(s) == MapChars(s, "upper")
\* str.lower()
StrLower(s) == MapChars(s, "lower")
\* str.replace(".", "-")
ReplaceDots(s) == MapChars(s, "dot2dash")

RECURSIVE LStripZeros(_)
\* str.lstrip('0')
LStripZeros(s) ==
    IF s # <<>> /\ Head(s) = "0" THEN LStripZeros(Tail(s)) ELSE s

\* str.endswith(suffix)
EndsWith(s, suffix) ==
    /\ Len(s) >= Len(suffix)
    /\ SubSeq(s, Len(s) - Len(suffix) + 1, Len(s)) = suffix

RECURSIVE IntToStr(_)
\* str(k) for k >= 0, as in the f-string f"{base}-{suffix}"
IntToStr(k) ==
    IF k < 10 THEN <<Digits[k + 1]>>
    ELSE IntToStr(k \div 10) \o <<Digits[(k % 10) + 1]>>

----------------------------------------------------------------------------
(* models.py: Holding, PortfolioDefinition, PortfolioFile.                 *)

\* Holding.id = None (Optional[str]); no Python string equals it
NoneId == <<"<None>">>
\* None for the Optional[str] fields kept as TLA+ strings (name, notes)
NoneStr == "<None>"

DEFAULT_PORTFOLIO_ID == "default"
AGGREGATE_PORTFOLIO_ID == "all"

\* falsy Optional[str]: None or ""
Falsy(id) == id = NoneId \/ id = <<>>

Holding(id, symbol, quantity, cost_basis) ==
    [id |-> id, symbol |-> symbol, quantity |-> quantity, cost_basis |-> cost_basis]

PortfolioDefinition(id, name, notes, holdings) ==
    [id |-> id, name |-> name, notes |-> notes, holdings |-> holdings]

PortfolioFile(base_currency, holdings, portfolios) ==
    [base_currency |-> base_currency, holdings |-> holdings, portfolios |-> portfolios]

\* PortfolioFile(base_currency="USD", holdings=[])
EmptyPortfolioFile == PortfolioFile("USD", <<>>, <<>>)

----------------------------------------------------------------------------
(* Persistence: PortfolioStore.save / reload.                              *)

\* Holding.model_dump(mode="python"): every field, by name; `name` for the
\* holdings that carry it
DumpHolding(h) ==
    IF "name" \in DOMAIN h
    THEN [id |-> h.id, symbol |-> h.symbol, quantity |-> h.quantity,
          cost_basis |-> h.cost_basis, name |-> h.name]
    ELSE [id |-> h.id, symbol |-> h.symbol, quantity |-> h.quantity,
          cost_basis |-> h.cost_basis]

DumpHoldings(hs) == [i \in 1..Len(hs) |-> DumpHolding(hs[i])]

\* PortfolioDefinition.model_dump(mode="python")
DumpDefinition(p) ==
    [id |-> p.id, name |-> p.name, notes |-> p.notes, holdings |-> DumpHoldings(p.holdings)]

\* PortfolioFile.model_dump(mode="python"): base_currency, holdings, portfolios
ModelDump(d) ==
    [base_currency |-> d.base_currency,
     holdings |-> DumpHoldings(d.holdings),
     portfolios |-> [i \in 1..Len(d.portfolios) |-> DumpDefinition(d.portfolios[i])]]

\* the file as save() leaves it: it exists and holds the dump of _data
SavedFile(d) == [exists |-> TRUE, content |-> ModelDump(d)]

\* no file at file_path
MissingFile == [exists |-> FALSE, content |-> EmptyPortfolioFile]

\* Field(..., ge=0) on Holding.quantity and Holding.cost_basis
HoldingValid(h) == h.quantity >= 0 /\ h.cost_basis >= 0

\* PortfolioFile.model_validate(raw) does not raise
ModelValid(raw) ==
    /\ \A i \in 1..Len(raw.holdings) : HoldingValid(raw.holdings[i])
    /\ \A i \in 1..Len(raw.portfolios) :
          \A j \in 1..Len(raw.portfolios[i].holdings) :
              HoldingValid(raw.portfolios[i].holdings[j])

\* _build_portfolio_map(data) does not raise: no empty id, no duplicate id
BuildMapOK(d) ==
    /\ \A i \in 1..Len(d.portfolios) : d.portfolios[i].id # ""
    /\ \A i, j \in 1..Len(d.portfolios) :
          i # j => d.portfolios[i].id # d.portfolios[j].id

\* _build_portfolio_map(data): the dict, as the sequence of its values in
\* insertion order (each key is its value's id)
BuildPortfolioMap(d) ==
    IF d.portfolios # <<>> THEN d.portfolios
    ELSE IF d.holdings # <<>>
    THEN <<PortfolioDefinition(DEFAULT_PORTFOLIO_ID, "Default Portfolio", NoneStr, d.holdings)>>
    ELSE <<PortfolioDefinition(DEFAULT_PORTFOLIO_ID, "Default Portfolio", NoneStr, <<>>)>>

\* portfolio_id in self._portfolios
InMap(m, pid) == \E i \in 1..Len(m) : m[i].id = pid

\* self._portfolios[portfolio_id]
MapGet(m, pid) == m[CHOOSE i \in 1..Len(m) : m[i].id = pid]

\* PortfolioFile.model_validate(raw), for a document that may leave out any
\* of the three keys: each field the document lacks takes its default
ModelValidate(raw) ==
    PortfolioFile(
        IF "base_currency" \in DOMAIN raw THEN raw.base_currency ELSE "USD",
        IF "holdings" \in DOMAIN raw THEN raw.holdings ELSE <<>>,
        IF "portfolios" \in DOMAIN raw THEN raw.portfolios ELSE <<>>)

\* the store right after __init__ on file f: _portfolios = {} and reload()
Constructed(f) ==
    IF ~f.exists
    THEN [data |-> EmptyPortfolioFile, map |-> <<>>]
    ELSE [data |-> ModelValidate(f.content),
          map |-> BuildPortfolioMap(ModelValidate(f.content))]

\* __init__ returns (reload raised nothing)
ConstructOK(f) ==
    ~f.exists \/ (/\ ModelValid(ModelValidate(f.content))
                  /\ BuildMapOK(ModelValidate(f.content)))

----------------------------------------------------------------------------
(* PortfolioStore: the mutating operations.                                *)

\* Optional arguments of the update calls: None, or a given value
None == {}
Some(v) == {v}
Given(opt) == CHOOSE v \in opt : TRUE

\* the record of a store call, kept in `last`
Call(op, pid, key, force, ok, err, ret) ==
    [op |-> op, pid |-> pid, key |-> key, force |-> force, ok |-> ok, err |-> err, ret |-> ret]

\* no holding returned
NoHolding == Holding(NoneId, <<>>, 0, 0)

\* _ensure_portfolios_initialized that leaves the flat list as it was
EnsureKeepsFlatList(st) ==
    IF st.data.portfolios # <<>> THEN st
    ELSE LET default_portfolio ==
                 PortfolioDefinition(DEFAULT_PORTFOLIO_ID, "Default Portfolio", NoneStr,
                                     st.data.holdings)
             d == [st.data EXCEPT !.portfolios = <<default_portfolio>>]
         IN  [data |-> d, map |-> BuildPortfolioMap(d)]

\* _ensure_portfolios_initialized, on the pair (_data, _portfolios)
EnsurePortfoliosInitialized(st) ==
    IF st.data.portfolios # <<>> THEN st
    ELSE LET default_portfolio ==
                 PortfolioDefinition(DEFAULT_PORTFOLIO_ID, "Default Portfolio", NoneStr,
                                     st.data.holdings)
             d == [st.data EXCEPT !.portfolios = <<default_portfolio>>, !.holdings = <<>>]
         IN  [data |-> d, map |-> BuildPortfolioMap(d)]

\* the store as an operation finds it after its first line
Ensured == EnsurePortfoliosInitialized([data |-> data, map |-> portfolios_map])

\* the operation raises ValueError(err) after _ensure_portfolios_initialized:
\* nothing is saved, the index is not refreshed
Rejected(op, pid, key, force, err) ==
    /\ data' = Ensured.data
    /\ portfolios_map' = Ensured.map
    /\ file' = file
    /\ last' = Call(op, pid, key, force, FALSE, err, NoHolding)

\* a successful operation that saves and leaves the index as it was
SaveNoRefresh(op, pid, key, force, d, ret) ==
    /\ data' = d
    /\ file' = SavedFile(d)
    /\ portfolios_map' = Ensured.map
    /\ last' = Call(op, pid, key, force, TRUE, "", ret)

\* the tail of every successful operation: save(), then _refresh_cache()
SaveAndRefresh(op, pid, key, force, d, ret) ==
    /\ data' = d
    /\ file' = SavedFile(d)
    /\ portfolios_map' = BuildPortfolioMap(d)
    /\ last' = Call(op, pid, key, force, TRUE, "", ret)

\* the PortfolioFile with the definition of id pid replaced by def: what a
\* write through self._portfolios[pid] does to _data, the index holding the
\* very objects of _data.portfolios
WithDefinition(d, pid, def) ==
    [d EXCEPT !.portfolios =
        [i \in 1..Len(d.portfolios) |->
            IF d.portfolios[i].id = pid THEN def ELSE d.portfolios[i]]]

\* number of holdings in the store, flat list included
TotalHoldings(d) ==
    LET RECURSIVE Sum(_)
        Sum(i) == IF i = 0 THEN 0 ELSE Len(d.portfolios[i].holdings) + Sum(i - 1)
    IN  Len(d.holdings) + Sum(Len(d.portfolios))

\* create_portfolio: the error it raises, "" when it raises none
CreateError(m, pid) ==
    IF pid = "" THEN "portfolio_id is required"
    ELSE IF InMap(m, pid) THEN "already exists"
    ELSE ""

create_portfolio(pid, name, notes) ==
    LET st == Ensured
        err == CreateError(st.map, pid)
    IN  IF err # "" THEN Rejected("create_portfolio", pid, NoneId, FALSE, err)
        ELSE SaveAndRefresh("create_portfolio", pid, NoneId, FALSE,
                 [st.data EXCEPT !.portfolios =
                     Append(@, PortfolioDefinition(pid, name, notes, <<>>))],
                 NoHolding)

\* update_portfolio: the definition after the partial update
UpdatedDefinition(def, name, notes) ==
    [def EXCEPT !.name = IF name # None THEN Given(name) ELSE @,
                !.notes = IF notes # None THEN Given(notes) ELSE @]

update_portfolio(pid, name, notes) ==
    LET st == Ensured
    IN  IF ~InMap(st.map, pid)
        THEN Rejected("update_portfolio", pid, NoneId, FALSE, "does not exist")
        ELSE SaveAndRefresh("update_portfolio", pid, NoneId, FALSE,
                 WithDefinition(st.data, pid,
                     UpdatedDefinition(MapGet(st.map, pid), name, notes)),
                 NoHolding)

\* delete_portfolio without its check of the last portfolio
DeleteErrorNoLastCheck(m, pid, force) ==
    IF ~InMap(m, pid) THEN "does not exist"
    ELSE IF MapGet(m, pid).holdings # <<>> /\ ~force THEN "Portfolio is not empty"
    ELSE ""

\* delete_portfolio: the error it raises, "" when it raises none
DeleteError(m, pid, force) ==
    IF ~InMap(m, pid) THEN "does not exist"
    ELSE IF Len(m) <= 1 THEN "Cannot delete the last portfolio"
    ELSE IF MapGet(m, pid).holdings # <<>> /\ ~force THEN "Portfolio is not empty"
    ELSE ""

\* delete_portfolio that removes the portfolio only when it is empty
delete_portfolio_if_empty(pid, force) ==
    LET st == Ensured
        err == DeleteError(st.map, pid, force)
    IN  IF err # "" THEN Rejected("delete_portfolio", pid, NoneId, force, err)
        ELSE SaveAndRefresh("delete_portfolio", pid, NoneId, force,
                 [st.data EXCEPT !.portfolios =
                     SelectSeq(@, LAMBDA p : p.id # pid \/ p.holdings # <<>>)],
                 NoHolding)

delete_portfolio(pid, force) ==
    LET st == Ensured
        err == DeleteError(st.map, pid, force)
    IN  IF err # "" THEN Rejected("delete_portfolio", pid, NoneId, force, err)
        ELSE SaveAndRefresh("delete_portfolio", pid, NoneId, force,
                 [st.data EXCEPT !.portfolios =
                     SelectSeq(@, LAMBDA p : p.id # pid)],
                 NoHolding)

----------------------------------------------------------------------------
(* PortfolioStore: holdings.                                               *)

\* {holding.id for holding in portfolio.holdings if holding.id}
ExistingIds(portfolio) ==
    {portfolio.holdings[i].id : i \in {j \in 1..Len(portfolio.holdings) :
                                          ~Falsy(portfolio.holdings[j].id)}}

RECURSIVE GenerateLoop(_, _, _, _, _)
\* the while loop of _generate_holding_id; `turns` counts its iterations
GenerateLoop(base, existing_ids, candidate, suffix, turns) ==
    IF candidate = <<>> \/ candidate \in existing_ids
    THEN GenerateLoop(base, existing_ids, base \o <<"-">> \o IntToStr(suffix),
                      suffix + 1, turns + 1)
    ELSE [id |-> candidate, turns |-> turns]

\* the base without the replacement of "."
BaseIdKeepsDots(symbol) == StrLower(symbol)

\* symbol.lower().replace(".", "-")
BaseId(symbol) == ReplaceDots(StrLower(symbol))

\* _generate_holding_id(portfolio, symbol), with the number of loop iterations
GenerateHoldingId(portfolio, symbol) ==
    GenerateLoop(BaseId(symbol), ExistingIds(portfolio), BaseId(symbol), 1, 0)

\* any(existing.id == holding.id for existing in portfolio.holdings)
IdTaken(portfolio, id) ==
    \E i \in 1..Len(portfolio.holdings) : portfolio.holdings[i].id = id

add_holding(pid, holding) ==
    LET st == Ensured
    IN  IF ~InMap(st.map, pid)
        THEN Rejected("add_holding", pid, holding.id, FALSE, "does not exist")
        ELSE LET portfolio == MapGet(st.map, pid)
             IN  IF ~Falsy(holding.id) /\ IdTaken(portfolio, holding.id)
                 THEN Rejected("add_holding", pid, holding.id, FALSE, "already exists")
                 ELSE LET h == IF Falsy(holding.id)
                               THEN [holding EXCEPT
                                        !.id = GenerateHoldingId(portfolio, holding.symbol).id]
                               ELSE holding
                      IN  SaveAndRefresh("add_holding", pid, holding.id, FALSE,
                              WithDefinition(st.data, pid,
                                  [portfolio EXCEPT !.holdings = Append(@, h)]),
                              h)

\* the comprehension matching the symbol with its letter case
KeyMatchesCaseSensitive(holding, key) ==
    \/ (~Falsy(holding.id) /\ holding.id = key)
    \/ holding.symbol = key

\* the condition of the comprehension in _find_holding_index
KeyMatches(holding, key) ==
    \/ (~Falsy(holding.id) /\ holding.id = key)
    \/ StrUpper(holding.symbol) = StrUpper(key)

\* matches, the list of indices built by _find_holding_index
Matches(portfolio, key) ==
    {i \in 1..Len(portfolio.holdings) : KeyMatches(portfolio.holdings[i], key)}

\* _find_holding_index: the error it raises, "" when it raises none
FindError(portfolio, key) ==
    IF Matches(portfolio, key) = {} THEN "not found"
    ELSE IF Cardinality(Matches(portfolio, key)) > 1 THEN "Multiple holdings match"
    ELSE ""

\* list.pop(index), the list that is left
Pop(seq, index) == SubSeq(seq, 1, index - 1) \o SubSeq(seq, index + 1, Len(seq))

remove_holding(pid, key) ==
    LET st == Ensured
    IN  IF ~InMap(st.map, pid)
        THEN Rejected("remove_holding", pid, key, FALSE, "does not exist")
        ELSE LET portfolio == MapGet(st.map, pid)
                 err == FindError(portfolio, key)
             IN  IF err # "" THEN Rejected("remove_holding", pid, key, FALSE, err)
                 ELSE LET index == CHOOSE i \in Matches(portfolio, key) : TRUE
                      IN  SaveAndRefresh("remove_holding", pid, key, FALSE,
                              WithDefinition(st.data, pid,
                                  [portfolio EXCEPT !.holdings = Pop(@, index)]),
                              portfolio.holdings[index])

\* the holding after the assignments of update_holding
UpdatedHolding(h, quantity, cost_basis, symbol) ==
    [h EXCEPT !.quantity = IF quantity # None THEN Given(quantity) ELSE @,
              !.cost_basis = IF cost_basis # None THEN Given(cost_basis) ELSE @,
              !.symbol = IF symbol # None THEN Given(symbol) ELSE @]

update_holding(pid, holding_id, quantity, cost_basis, symbol) ==
    LET st == Ensured
    IN  IF ~InMap(st.map, pid)
        THEN Rejected("update_holding", pid, holding_id, FALSE, "does not exist")
        ELSE LET portfolio == MapGet(st.map, pid)
                 \* next((h for h in portfolio.holdings if h.id == holding_id), None)
                 found == {i \in 1..Len(portfolio.holdings) :
                              portfolio.holdings[i].id = holding_id}
             IN  IF found = {}
                 THEN Rejected("update_holding", pid, holding_id, FALSE, "not found")
                 ELSE LET index == CHOOSE i \in found : \A j \in found : i <= j
                          h == UpdatedHolding(portfolio.holdings[index],
                                              quantity, cost_basis, symbol)
                      IN  SaveAndRefresh("update_holding", pid, holding_id, FALSE,
                              WithDefinition(st.data, pid,
                                  [portfolio EXCEPT !.holdings[index] = h]),
                              h)

----------------------------------------------------------------------------
(* The files the store is constructed on, and the arguments of the calls.  *)

AAPL == <<"A","A","P","L">>
BRKB == <<"B","R","K",".","B">>
aapl == <<"a","a","p","l">>
aapl1 == <<"a","a","p","l","-","1">>
brkDotB == <<"b","r","k",".","b">>
zz == <<"z","z">>

\* an empty document
EmptyDocument == [exists |-> TRUE, content |-> EmptyPortfolioFile]

\* the legacy layout: a flat holdings list, one holding without an id
LegacyFile ==
    [exists |-> TRUE, content |->
        PortfolioFile("USD", <<Holding(aapl, AAPL, 10, 5), Holding(NoneId, BRKB, 10, 5)>>, <<>>)]

\* the structured layout, two portfolios
StructuredFile ==
    [exists |-> TRUE, content |->
        PortfolioFile("CNY", <<>>,
            <<PortfolioDefinition("p1", "n1", NoneStr, <<Holding(aapl, AAPL, 10, 5)>>),
              PortfolioDefinition("p2", NoneStr, NoneStr, <<>>)>>)]

\* the structured layout, one portfolio, two entries with the same id
DuplicateIdFile ==
    [exists |-> TRUE, content |->
        PortfolioFile("USD", <<>>,
            <<PortfolioDefinition("p1", "n1", NoneStr,
                  <<Holding(aapl, AAPL, 10, 5), Holding(aapl, BRKB, 10, 5)>>)>>)]

\* the structured layout, two portfolios with two entries of the same id:
\* _build_portfolio_map raises and the store is not constructed
DuplicatePortfolioFile ==
    [exists |-> TRUE, content |->
        PortfolioFile("USD", <<>>,
            <<PortfolioDefinition("p1", "n1", NoneStr, <<>>),
              PortfolioDefinition("p1", "n1", NoneStr, <<>>)>>)]

InitialFiles ==
    {MissingFile, EmptyDocument, LegacyFile, StructuredFile, DuplicateIdFile,
     DuplicatePortfolioFile}

PortfolioIdArgs == {"", DEFAULT_PORTFOLIO_ID, "p1"}
\* (name, notes) of update_portfolio
PortfolioUpdateArgs == { <<Some("n2"), None>>, <<None, Some("t2")>> }
\* (id, symbol) of the Holding handed to add_holding
HoldingArgs == { <<NoneId, AAPL>>, <<aapl, AAPL>> }
HoldingKeyArgs == {aapl, AAPL}
\* (quantity, cost_basis, symbol) of update_holding
HoldingUpdateArgs == { <<Some(20), None, None>> }

\* the wider arguments of the holdings' specification
HoldingPortfolioIdArgs == {DEFAULT_PORTFOLIO_ID, "p1", "p2"}
MoreHoldingArgs ==
    { <<NoneId, AAPL>>, <<NoneId, BRKB>>, <<NoneId, <<>> >>, <<<<>>, AAPL>>,
      <<aapl, AAPL>>, <<aapl1, AAPL>> }
MoreHoldingKeyArgs == {aapl, aapl1, AAPL, brkDotB, zz}
MoreHoldingUpdateArgs == { <<None, Some(7), Some(BRKB)>> }

----------------------------------------------------------------------------
(* The store's state machine.                                              *)

NoCall == Call("init", "", NoneId, FALSE, TRUE, "", NoHolding)

\* the store after PortfolioStore(file_path), for each file it accepts
StoreInitOn(files) ==
    \E f \in files :
        /\ ConstructOK(f)
        /\ file = f
        /\ data = Constructed(f).data
        /\ portfolios_map = Constructed(f).map
        /\ last = NoCall

PriceIdle ==
    /\ ttl = 0
    /\ max_retries = 0
    /\ now = 0
    /\ cache = <<>>
    /\ calls = <<>>
    /\ package = "app"

\* no poller event yet
NoEvent == [op |-> "init", noop |-> FALSE, target |-> 0, result |-> <<>>, fetched |-> 0]

\* no ensure_warm has returned since the last refresh_now
NoWarm == [known |-> FALSE, result |-> <<>>]

\* PricePoller(store, service, interval_seconds) with interval 0, not started
PollerIdle ==
    /\ interval = 0
    /\ task = 0
    /\ loops = <<>>
    /\ stops = <<>>
    /\ adhoc = <<>>
    /\ quotes = <<>>
    /\ warm = NoWarm
    /\ plast = NoEvent

CreatePortfolio ==
    /\ Len(data.portfolios) < MaxPortfolios
    /\ \E pid \in PortfolioIdArgs : create_portfolio(pid, "n1", NoneStr)
    /\ UNCHANGED priceVars
    /\ UNCHANGED pollerVars

UpdatePortfolio ==
    /\ \E pid \in PortfolioIdArgs, a \in PortfolioUpdateArgs :
          update_portfolio(pid, a[1], a[2])
    /\ UNCHANGED priceVars
    /\ UNCHANGED pollerVars

DeletePortfolio ==
    /\ \E pid \in PortfolioIdArgs, force \in BOOLEAN : delete_portfolio(pid, force)
    /\ UNCHANGED priceVars
    /\ UNCHANGED pollerVars

AddHolding ==
    /\ TotalHoldings(data) < MaxHoldings
    /\ \E pid \in PortfolioIdArgs, a \in HoldingArgs :
          add_holding(pid, Holding(a[1], a[2], 10, 5))
    /\ UNCHANGED priceVars
    /\ UNCHANGED pollerVars

RemoveHolding ==
    /\ \E pid \in PortfolioIdArgs, key \in HoldingKeyArgs : remove_holding(pid, key)
    /\ UNCHANGED priceVars
    /\ UNCHANGED pollerVars

UpdateHolding ==
    /\ \E pid \in PortfolioIdArgs, a \in HoldingUpdateArgs :
          update_holding(pid, aapl, a[1], a[2], a[3])
    /\ UNCHANGED priceVars
    /\ UNCHANGED pollerVars

Init == StoreInitOn(InitialFiles) /\ PriceIdle /\ PollerIdle

Next ==
    \/ CreatePortfolio
    \/ UpdatePortfolio
    \/ DeletePortfolio
    \/ AddHolding
    \/ RemoveHolding
    \/ UpdateHolding

\* every store operation, on every file the store accepts
Spec == Init /\ [][Next]_vars

AddHoldingMore ==
    /\ TotalHoldings(data) < MaxHoldings
    /\ \E pid \in HoldingPortfolioIdArgs, a \in MoreHoldingArgs :
          add_holding(pid, Holding(a[1], a[2], 10, 5))
    /\ UNCHANGED priceVars
    /\ UNCHANGED pollerVars

RemoveHoldingMore ==
    /\ \E pid \in HoldingPortfolioIdArgs, key \in MoreHoldingKeyArgs : remove_holding(pid, key)
    /\ UNCHANGED priceVars
    /\ UNCHANGED pollerVars

UpdateHoldingMore ==
    /\ \E pid \in HoldingPortfolioIdArgs, id \in {aapl, aapl1}, a \in MoreHoldingUpdateArgs :
          update_holding(pid, id, a[1], a[2], a[3])
    /\ UNCHANGED priceVars
    /\ UNCHANGED pollerVars

NextHoldings ==
    \/ AddHoldingMore
    \/ RemoveHoldingMore
    \/ UpdateHoldingMore

\* the holding operations with wider arguments, on every file the store accepts
SpecHoldings == Init /\ [][NextHoldings]_vars

\* (name, notes) of update_portfolio, each given or not
AnyPortfolioUpdateArgs == {None, Some("n2")} \X {None, Some("t2")}
\* (quantity, cost_basis, symbol) of update_holding, each given or not
AnyHoldingUpdateArgs == {None, Some(20)} \X {None, Some(7)} \X {None, Some(BRKB)}

UpdatePortfolioAny ==
    /\ \E pid \in PortfolioIdArgs, a \in AnyPortfolioUpdateArgs :
          update_portfolio(pid, a[1], a[2])
    /\ UNCHANGED priceVars
    /\ UNCHANGED pollerVars

UpdateHoldingAny ==
    /\ \E pid \in PortfolioIdArgs, id \in {aapl, zz}, a \in AnyHoldingUpdateArgs :
          update_holding(pid, id, a[1], a[2], a[3])
    /\ UNCHANGED priceVars
    /\ UNCHANGED pollerVars

UpdatesInit ==
    /\ StoreInitOn({MissingFile, LegacyFile, StructuredFile, DuplicateIdFile})
    /\ PriceIdle
    /\ PollerIdle

NextUpdates ==
    \/ UpdatePortfolioAny
    \/ UpdateHoldingAny

\* the two update operations with every choice of given fields
SpecUpdates == UpdatesInit /\ [][NextUpdates]_vars

\* store.reload() on what it read of the file: a missing file resets _data
\* and leaves the index; a document that fails validation leaves both; a
\* document whose index cannot be built has replaced _data by then
ReloadFrom(f) ==
    IF ~f.exists
    THEN /\ data' = EmptyPortfolioFile
         /\ portfolios_map' = portfolios_map
         /\ last' = Call("reload", "", NoneId, FALSE, TRUE, "", NoHolding)
    ELSE LET d == ModelValidate(f.content)
         IN  IF ~ModelValid(d)
             THEN /\ UNCHANGED <<data, portfolios_map>>
                  /\ last' = Call("reload", "", NoneId, FALSE, FALSE,
                                  "ValidationError", NoHolding)
             ELSE IF ~BuildMapOK(d)
             THEN /\ data' = d
                  /\ portfolios_map' = portfolios_map
                  /\ last' = Call("reload", "", NoneId, FALSE, FALSE,
                                  "ValueError", NoHolding)
             ELSE /\ data' = d
                  /\ portfolios_map' = BuildPortfolioMap(d)
                  /\ last' = Call("reload", "", NoneId, FALSE, TRUE, "",
                                  NoHolding)

\* store.reload() called on the event loop
ReloadCall ==
    /\ ReloadFrom(file)
    /\ file' = file
    /\ UNCHANGED <<priceVars, pollerVars>>

\* store.save()
SaveCall ==
    /\ file' = SavedFile(data)
    /\ UNCHANGED <<data, portfolios_map>>
    /\ last' = Call("save", "", NoneId, FALSE, TRUE, "", NoHolding)
    /\ UNCHANGED <<priceVars, pollerVars>>

\* (quantity, cost_basis, symbol) of update_holding with numbers of either
\* sign: -1 and 5
SignedHoldingUpdateArgs == {None, Some(-4), Some(20)} \X {None, Some(-4)} \X {None}

UpdateHoldingSigned ==
    /\ \E pid \in {DEFAULT_PORTFOLIO_ID, "p1"}, a \in SignedHoldingUpdateArgs :
          update_holding(pid, aapl, a[1], a[2], a[3])
    /\ UNCHANGED priceVars
    /\ UNCHANGED pollerVars

\* the structured file written by hand: no `holdings` key, no
\* `base_currency` key
BareStructuredFile ==
    [exists |-> TRUE, content |->
        [portfolios |-> StructuredFile.content.portfolios]]

\* the legacy file written by hand: `holdings` only
BareLegacyFile ==
    [exists |-> TRUE, content |-> [holdings |-> LegacyFile.content.holdings]]

PersistInit ==
    /\ StoreInitOn({MissingFile, EmptyDocument, LegacyFile, BareLegacyFile,
                    StructuredFile, BareStructuredFile, DuplicateIdFile})
    /\ PriceIdle
    /\ PollerIdle

NextPersist ==
    \/ ReloadCall
    \/ SaveCall
    \/ CreatePortfolio
    \/ UpdateHoldingSigned

\* save and reload between changes of the store
SpecPersist == PersistInit /\ [][NextPersist]_vars

\* (quantity, cost_basis) of add_holding: -1, 0 or 10 units at cost -1 or 5
SignedHoldingArgs == {-4, 0, 40} \X {-4, 20}

\* Holding(symbol=..., quantity=..., cost_basis=...) as PortfolioApp.add_holding
\* constructs it, which raises for a number below 0, and store.add_holding
\* of the holding constructed
AddHoldingSigned ==
    /\ TotalHoldings(data) < MaxHoldings
    /\ \E pid \in {DEFAULT_PORTFOLIO_ID, "p1"}, a \in SignedHoldingArgs :
          IF ~HoldingValid(Holding(NoneId, AAPL, a[1], a[2]))
          THEN /\ UNCHANGED <<file, data, portfolios_map>>
               /\ last' = Call("add_holding", pid, NoneId, FALSE, FALSE,
                               "ValidationError", NoHolding)
          ELSE add_holding(pid, Holding(NoneId, AAPL, a[1], a[2]))
    /\ UNCHANGED priceVars
    /\ UNCHANGED pollerVars

NumbersInit ==
    /\ StoreInitOn({MissingFile, LegacyFile, StructuredFile})
    /\ PriceIdle
    /\ PollerIdle

NextNumbers ==
    \/ AddHoldingSigned
    \/ UpdateHoldingSigned

\* add_holding and update_holding with numbers of either sign
SpecNumbers == NumbersInit /\ [][NextNumbers]_vars

\* PortfolioApp.reload_portfolio: asyncio.to_thread(self.store.reload). The
\* worker thread has read the file; the tool call is in flight with what it
\* read
ReloadThreadReads ==
    /\ Len(adhoc) < MaxAdhoc
    /\ adhoc' = Append(adhoc, [op |-> "reload_portfolio", raw |-> file,
                               tasks |-> <<>>, prior |-> NoWarm])
    /\ UNCHANGED <<interval, task, loops, stops, quotes, warm, plast>>
    /\ UNCHANGED <<storeVars, priceVars>>

\* the worker thread validates what it read and assigns _data and
\* _portfolios; reload_portfolio returns
ReloadThreadAssigns ==
    /\ \E a \in 1..Len(adhoc) :
          /\ adhoc[a].op = "reload_portfolio"
          /\ ReloadFrom(adhoc[a].raw)
          /\ adhoc' = Pop(adhoc, a)
    /\ file' = file
    /\ UNCHANGED <<interval, task, loops, stops, quotes, warm, plast>>
    /\ UNCHANGED priceVars

RaceInit ==
    /\ StoreInitOn({StructuredFile})
    /\ PriceIdle
    /\ PollerIdle

NextRace ==
    \/ ReloadThreadReads
    \/ ReloadThreadAssigns
    \/ AddHolding
    \/ RemoveHolding

\* reload in a worker thread beside the store's operations on the event loop
SpecRace == RaceInit /\ [][NextRace]_vars

\* the structured layout with a portfolio entry whose id is empty
EmptyIdFile ==
    [exists |-> TRUE, content |->
        PortfolioFile("USD", <<>>,
            <<PortfolioDefinition("p2", "n2", NoneStr, <<>>),
              PortfolioDefinition("", "n1", NoneStr, <<>>)>>)]

\* the structured layout with a holding whose quantity is -1
NegativeFile ==
    [exists |-> TRUE, content |->
        PortfolioFile("USD", <<>>,
            <<PortfolioDefinition("p2", "n2", NoneStr,
                  <<Holding(aapl, AAPL, -4, 5)>>)>>)]

\* the documents the file is edited to between two reloads
EditedFiles ==
    {LegacyFile, StructuredFile, DuplicatePortfolioFile, EmptyIdFile, NegativeFile}

\* the user edits the portfolio file outside the program
FileEdited ==
    /\ \E f \in EditedFiles : file' = f
    /\ UNCHANGED <<data, portfolios_map, last>>
    /\ UNCHANGED <<priceVars, pollerVars>>

\* the user removes the portfolio file
FileRemoved ==
    /\ file.exists
    /\ file' = MissingFile
    /\ UNCHANGED <<data, portfolios_map, last>>
    /\ UNCHANGED <<priceVars, pollerVars>>

ReloadInit ==
    /\ StoreInitOn({MissingFile, LegacyFile, StructuredFile})
    /\ PriceIdle
    /\ PollerIdle

NextReload ==
    \/ FileEdited
    \/ FileRemoved
    \/ ReloadCall

\* reload of a file that is edited or removed outside the program
SpecReload == ReloadInit /\ [][NextReload]_vars

----------------------------------------------------------------------------
(* PriceService (src/app/pricing.py): the TTL cache and the retrying fetch.*)

\* PriceQuote(symbol, price, fetched_at); price is None or Some(p)
PriceQuote(symbol, price, fetched_at) ==
    [symbol |-> symbol, price |-> price, fetched_at |-> fetched_at]

\* CacheEntry(quote, expires_at)
CacheEntry(quote, expires_at) == [quote |-> quote, expires_at |-> expires_at]

\* timedelta(seconds=max(ttl_seconds, 0)), in seconds
TtlOf(ttl_seconds) == IF ttl_seconds > 0 THEN ttl_seconds ELSE 0

\* max(int(max_retries), 0)
RetriesOf(retries) == IF retries > 0 THEN retries ELSE 0

\* the cache key of _get_symbol. src/app/pricing.py: upper-cased, and for a
\* .HK code longer than five characters the leading zeros stripped;
\* src/portfolio_mcp/pricing.py: upper-cased
Normalize(symbol) ==
    LET normalized == StrUpper(symbol)
    IN  IF /\ package = "app"
           /\ EndsWith(normalized, <<".","H","K">>)
           /\ Len(normalized) > 5
        THEN LStripZeros(normalized)
        ELSE normalized

\* the lookup serving an entry in the second it expires
CacheLiveInclusive(c, key, t) == key \in DOMAIN c /\ c[key].expires_at >= t

\* cached and cached.expires_at > now
CacheLive(c, key, t) == key \in DOMAIN c /\ c[key].expires_at > t

\* now + self.ttl if self.ttl.total_seconds() else now
ExpiresAt(t, ttlv) == IF ttlv # 0 THEN t + ttlv ELSE t

\* self._cache[normalized] = entry
CachePut(c, key, entry) ==
    [k \in DOMAIN c \cup {key} |-> IF k = key THEN entry ELSE c[k]]

\* one _get_symbol coroutine of a get_quotes call, after its cache lookup at
\* time t: returned from the cache, or waiting for _fetch_quote_sync, whose
\* worker thread reads the clock in the same second
StartedTask(symbol, c, t) ==
    CHOOSE started \in
        {LET hit == CacheLive(c, key, t)
         IN  [symbol |-> symbol, key |-> key, now |-> t, hit |-> hit,
              pc |-> IF hit THEN "done" ELSE "fetching",
              attempt |-> 0,
              quote |-> IF hit THEN c[key].quote ELSE PriceQuote(key, None, t)] :
            key \in {Normalize(symbol)}} : TRUE

\* the dict without the quotes that have no price
QuoteDictDropsFailures(tasks) ==
    [k \in {StrUpper(tasks[i].quote.symbol) :
               i \in {j \in 1..Len(tasks) : tasks[j].quote.price # None}} |->
        tasks[CHOOSE i \in 1..Len(tasks) :
                 /\ StrUpper(tasks[i].quote.symbol) = k
                 /\ tasks[i].quote.price # None].quote]

\* {quote.symbol.upper(): quote for quote in quotes}: a later quote replaces
\* an earlier one under the same key
QuoteDict(tasks) ==
    [k \in {StrUpper(tasks[i].quote.symbol) : i \in 1..Len(tasks)} |->
        tasks[CHOOSE i \in 1..Len(tasks) :
                 /\ StrUpper(tasks[i].quote.symbol) = k
                 /\ \A j \in 1..Len(tasks) :
                       StrUpper(tasks[j].quote.symbol) = k => j <= i].quote]

\* the provider's answers to one attempt: yf.Ticker or the extraction
\* raises, the history holds no price, or it holds one
Outcomes == {"raise", "none", "price"}

\* the price the provider has for a symbol
ProviderPrice(key) == Len(key)

\* the back-off without its cap
BackoffUncapped(attempt) == 2^attempt

\* min(2**attempt, 5)
Backoff(attempt) == IF 2^attempt < 5 THEN 2^attempt ELSE 5

RECURSIVE FetchLoop(_, _, _, _, _, _)
\* the loop `for attempt in range(attempts)` of _fetch_quote_sync, the
\* provider answering the k-th attempt with outcomes[k]: the price it ends
\* with, the attempts made and the back-off sleeps taken
FetchLoop(key, attempt, attempts, outcomes, price, slept) ==
    IF attempt >= attempts
    THEN [price |-> price, tries |-> attempt, slept |-> slept]
    ELSE LET outcome == outcomes[attempt + 1]
             got == IF outcome = "price" THEN Some(ProviderPrice(key))
                    ELSE IF outcome = "none" THEN None ELSE price
         IN  IF outcome = "price"
             THEN [price |-> got, tries |-> attempt + 1, slept |-> slept]
             ELSE FetchLoop(key, attempt + 1, attempts, outcomes, got,
                            IF attempt < attempts - 1
                            THEN Append(slept, Backoff(attempt)) ELSE slept)

\* _fetch_quote_sync(symbol), started at time t
FetchQuoteSync(key, t, outcomes) ==
    LET r == FetchLoop(key, 0, max_retries + 1, outcomes, None, <<>>)
    IN  [quote |-> PriceQuote(key, r.price, t), tries |-> r.tries, slept |-> r.slept]

\* the provider's answers to the attempts of one fetch
OutcomeSeqs == [1..(max_retries + 1) -> Outcomes]

SymbolHK0 == <<"0","9","9","8","8",".","H","K">>
SymbolHK == <<"9","9","8","8",".","H","K">>

\* the symbol lists get_quotes is called with
Requests == { <<aapl, SymbolHK0>>, <<SymbolHK>> }

\* number of _get_symbol tasks of the calls in flight
InFlight ==
    LET RECURSIVE Sum(_)
        Sum(c) == IF c = 0 THEN 0 ELSE Len(calls[c].tasks) + Sum(c - 1)
    IN  Sum(Len(calls))

\* get_quotes(symbols): gather starts one _get_symbol per symbol; each runs
\* to its first await (the cache lookup) before any fetch completes
GetQuotes ==
    /\ \E symbols \in Requests :
          /\ InFlight + Len(symbols) <= MaxInFlight
          /\ calls' = Append(calls,
                 [tasks |-> [i \in 1..Len(symbols) |->
                                StartedTask(symbols[i], cache, now)]])
    /\ UNCHANGED <<ttl, max_retries, package, now, cache>>
    /\ UNCHANGED storeVars
    /\ UNCHANGED pollerVars

\* a worker thread runs _fetch_quote_sync to its end
FetchQuote ==
    /\ \E c \in 1..Len(calls), outcomes \in OutcomeSeqs :
          \E i \in 1..Len(calls[c].tasks) :
              /\ calls[c].tasks[i].pc = "fetching"
              /\ LET t == calls[c].tasks[i]
                     r == FetchQuoteSync(t.key, t.now, outcomes)
                 IN  calls' = [calls EXCEPT ![c].tasks[i] =
                                  [t EXCEPT !.pc = "fetched", !.attempt = r.tries,
                                            !.quote = r.quote]]
    /\ UNCHANGED <<ttl, max_retries, package, now, cache>>
    /\ UNCHANGED storeVars
    /\ UNCHANGED pollerVars

\* _get_symbol resumes after the fetch: it stores the entry and returns
StoreQuote ==
    /\ \E c \in 1..Len(calls) :
          \E i \in 1..Len(calls[c].tasks) :
              /\ calls[c].tasks[i].pc = "fetched"
              /\ cache' = CachePut(cache, calls[c].tasks[i].key,
                             CacheEntry(calls[c].tasks[i].quote,
                                        ExpiresAt(calls[c].tasks[i].now, ttl)))
              /\ calls' = [calls EXCEPT ![c].tasks[i].pc = "done"]
    /\ UNCHANGED <<ttl, max_retries, package, now>>
    /\ UNCHANGED storeVars
    /\ UNCHANGED pollerVars

\* gather has every result: get_quotes returns the dict
GetQuotesReturn ==
    /\ \E c \in 1..Len(calls) :
          /\ \A i \in 1..Len(calls[c].tasks) : calls[c].tasks[i].pc = "done"
          /\ calls' = Pop(calls, c)
    /\ UNCHANGED <<ttl, max_retries, package, now, cache>>
    /\ UNCHANGED storeVars
    /\ UNCHANGED pollerVars

\* a second passes
Tick ==
    /\ now < MaxTime
    /\ now' = now + 1
    /\ UNCHANGED <<ttl, max_retries, package, cache, calls>>
    /\ UNCHANGED storeVars
    /\ UNCHANGED pollerVars

\* PriceService(ttl_seconds, max_retries=...) beside a constructed store
PriceInit ==
    /\ \E ttl_seconds \in {-1, 1} : ttl = TtlOf(ttl_seconds)
    /\ \E retries \in {-1, 1} : max_retries = RetriesOf(retries)
    /\ now = 0
    /\ cache = <<>>
    /\ calls = <<>>
    /\ StoreInitOn({StructuredFile})
    /\ package = "app"
    /\ PollerIdle

NextPrice ==
    \/ GetQuotes
    \/ FetchQuote
    \/ StoreQuote
    \/ GetQuotesReturn
    \/ Tick

\* the price service under every interleaving of its calls and fetches
SpecPrice == PriceInit /\ [][NextPrice]_vars

\* the PriceService of src/portfolio_mcp/pricing.py beside a constructed store
PriceInitMcp ==
    /\ \E ttl_seconds \in {-1, 1} : ttl = TtlOf(ttl_seconds)
    /\ \E retries \in {-1, 1} : max_retries = RetriesOf(retries)
    /\ now = 0
    /\ cache = <<>>
    /\ calls = <<>>
    /\ StoreInitOn({StructuredFile})
    /\ package = "portfolio_mcp"
    /\ PollerIdle

\* the price service of portfolio_mcp under every interleaving
SpecPriceMcp == PriceInitMcp /\ [][NextPrice]_vars

\* the symbol lists of a store that holds "09988.HK" and "9988.HK", and of
\* one that holds "9988.HK" only
SameKeyRequests == { <<SymbolHK0, SymbolHK>>, <<SymbolHK>> }

\* get_quotes(symbols) on symbols that normalize to one cache key
GetQuotesSameKey ==
    /\ \E symbols \in SameKeyRequests :
          /\ InFlight + Len(symbols) <= MaxInFlight
          /\ calls' = Append(calls,
                 [tasks |-> [i \in 1..Len(symbols) |->
                                StartedTask(symbols[i], cache, now)]])
    /\ UNCHANGED <<ttl, max_retries, package, now, cache>>
    /\ UNCHANGED storeVars
    /\ UNCHANGED pollerVars

\* PriceService(ttl_seconds, max_retries=0) beside a constructed store
SameKeyInit ==
    /\ \E ttl_seconds \in {0, 1} : ttl = TtlOf(ttl_seconds)
    /\ max_retries = RetriesOf(0)
    /\ now = 0
    /\ cache = <<>>
    /\ calls = <<>>
    /\ StoreInitOn({StructuredFile})
    /\ package = "app"
    /\ PollerIdle

NextSameKey ==
    \/ GetQuotesSameKey
    \/ FetchQuote
    \/ StoreQuote
    \/ GetQuotesReturn
    \/ Tick

\* overlapping fetches of one cache key
SpecSameKey == SameKeyInit /\ [][NextSameKey]_vars

----------------------------------------------------------------------------
(* PricePoller (src/app/scheduler.py): the periodic loop, start and stop,  *)
(* refresh_now and ensure_warm. refresh_now is read as the method of       *)
(* PricePoller its body and its callers make it.                           *)

\* the characters of the symbols in their code-point order
CharOrder == <<"-", ".">> \o Digits \o UpperChars \o LowerChars

\* the place of each character in that order
CharRankOf ==
    [c \in {CharOrder[i] : i \in 1..Len(CharOrder)} |->
        CHOOSE i \in 1..Len(CharOrder) : CharOrder[i] = c]

CharRank(c) == CharRankOf[c]

RECURSIVE StrLess(_, _)
\* a < b for two Python strings
StrLess(a, b) ==
    IF b = <<>> THEN FALSE
    ELSE IF a = <<>> THEN TRUE
    ELSE IF Head(a) # Head(b) THEN CharRank(Head(a)) < CharRank(Head(b))
    ELSE StrLess(Tail(a), Tail(b))

RECURSIVE Sorted(_)
\* sorted(set_of_strings)
Sorted(strs) ==
    IF strs = {} THEN <<>>
    ELSE LET least == CHOOSE a \in strs : \A b \in strs \ {a} : StrLess(a, b)
         IN  <<least>> \o Sorted(strs \ {least})

\* PortfolioStore.symbols(): the holdings' symbols, each once, sorted
Symbols(m) ==
    Sorted(UNION {{m[p].holdings[i].symbol : i \in 1..Len(m[p].holdings)} :
                     p \in 1..Len(m)})

\* _iter_holdings(None): the (definition, holding) pairs of every portfolio,
\* in the order of the index and of each holdings list
RECURSIVE IterAll(_)
IterAll(m) ==
    IF m = <<>> THEN <<>>
    ELSE [i \in 1..Len(Head(m).holdings) |-> <<Head(m), Head(m).holdings[i]>>]
         \o IterAll(Tail(m))

\* _iter_holdings(portfolio_id) raises ValueError
IterRaises(m, portfolio_id) == portfolio_id # None /\ ~InMap(m, Given(portfolio_id))

\* _iter_holdings(portfolio_id), when it does not raise
IterHoldings(m, portfolio_id) ==
    IF portfolio_id = None THEN IterAll(m)
    ELSE IterAll(<<MapGet(m, Given(portfolio_id))>>)

\* quotes.get(holding.symbol.upper()) or PriceQuote(symbol=holding.symbol)
SnapshotQuote(mapping, holding) ==
    IF StrUpper(holding.symbol) \in DOMAIN mapping
    THEN mapping[StrUpper(holding.symbol)]
    ELSE PriceQuote(holding.symbol, None, -1)

\* asyncio.sleep(5) after a failed iteration
LoopBackoff == 5

\* refresh_now up to its await: store.symbols(), and one _get_symbol per
\* symbol run to its cache lookup
RefreshStarted ==
    CHOOSE started \in
        {[i \in 1..Len(symbols) |-> StartedTask(symbols[i], cache, now)] :
            symbols \in {Symbols(portfolios_map)}} : TRUE

\* the provider's answers to the fetches of one refresh, one per symbol and
\* attempt: an attempt that raises, or one that yields a price
RefreshOutcomes(tasks) ==
    [1..Len(tasks) -> [1..(max_retries + 1) -> {"raise", "price"}]]

\* the tasks of a refresh when every fetch has ended
RefreshFinished(tasks, outcomes) ==
    [i \in 1..Len(tasks) |->
        IF tasks[i].hit THEN tasks[i]
        ELSE LET r == FetchQuoteSync(tasks[i].key, tasks[i].now, outcomes[i])
             IN  [tasks[i] EXCEPT !.pc = "done", !.attempt = r.tries,
                                  !.quote = r.quote]]

RECURSIVE StoreAll(_, _, _)
\* the cache after the tasks from the i-th on have stored their entries
StoreAll(c, tasks, i) ==
    IF i > Len(tasks) THEN c
    ELSE StoreAll(IF tasks[i].hit THEN c
                  ELSE CachePut(c, tasks[i].key,
                           CacheEntry(tasks[i].quote, ExpiresAt(tasks[i].now, ttl))),
                  tasks, i + 1)

\* the number of tasks of a refresh that went to the provider
Fetched(tasks) == Cardinality({i \in 1..Len(tasks) : ~tasks[i].hit})

\* a poller event
Event(op, noop, target, result, fetched) ==
    [op |-> op, noop |-> noop, target |-> target, result |-> result,
     fetched |-> fetched]

\* a refresh_now begins or ends: no ensure_warm in flight was called after
\* an ensure_warm with no refresh_now since
Forget(waiting) ==
    [i \in 1..Len(waiting) |-> [waiting[i] EXCEPT !.prior = NoWarm]]

\* asyncio.create_task(self._loop()): the task has not run yet
NewLoop == [pc |-> "created", tasks |-> <<>>, wait |-> 0, cancelling |-> FALSE]

\* the loop task t can run: it has not ended and no cancellation is pending
Runs(t) == loops[t].pc # "ended" /\ ~loops[t].cancelling

\* start() without its look at the task it has
StartAgain ==
    /\ IF interval = 0
       THEN /\ plast' = Event("start", TRUE, task, <<>>, 0)
            /\ UNCHANGED <<task, loops>>
       ELSE /\ Len(loops) < MaxTasks
            /\ loops' = Append(loops, NewLoop)
            /\ task' = Len(loops) + 1
            /\ plast' = Event("start", FALSE, Len(loops) + 1, <<>>, 0)
    /\ UNCHANGED <<interval, stops, adhoc, quotes, warm>>
    /\ UNCHANGED <<storeVars, priceVars>>

\* start()
Start ==
    /\ IF task # 0 \/ interval = 0
       THEN /\ plast' = Event("start", TRUE, task, <<>>, 0)
            /\ UNCHANGED <<task, loops>>
       ELSE /\ Len(loops) < MaxTasks
            /\ loops' = Append(loops, NewLoop)
            /\ task' = Len(loops) + 1
            /\ plast' = Event("start", FALSE, Len(loops) + 1, <<>>, 0)
    /\ UNCHANGED <<interval, stops, adhoc, quotes, warm>>
    /\ UNCHANGED <<storeVars, priceVars>>

\* stop() that also cancels the refreshes of the tool calls
StopCancelsAll ==
    /\ Len(stops) < MaxStops
    /\ IF task = 0
       THEN /\ plast' = Event("stop", TRUE, 0, <<>>, 0)
            /\ UNCHANGED <<loops, stops, adhoc>>
       ELSE /\ loops' = [loops EXCEPT ![task].cancelling =
                                          loops[task].pc # "ended"]
            /\ stops' = Append(stops, [target |-> task])
            /\ adhoc' = <<>>
            /\ plast' = Event("stop", FALSE, task, <<>>, 0)
    /\ UNCHANGED <<interval, task, quotes, warm>>
    /\ UNCHANGED <<storeVars, priceVars>>

\* stop() up to `await self._task`
StopCall ==
    /\ Len(stops) < MaxStops
    /\ IF task = 0
       THEN /\ plast' = Event("stop", TRUE, 0, <<>>, 0)
            /\ UNCHANGED <<loops, stops>>
       ELSE /\ loops' = [loops EXCEPT ![task].cancelling =
                                          loops[task].pc # "ended"]
            /\ stops' = Append(stops, [target |-> task])
            /\ plast' = Event("stop", FALSE, task, <<>>, 0)
    /\ UNCHANGED <<interval, task, adhoc, quotes, warm>>
    /\ UNCHANGED <<storeVars, priceVars>>

\* the cancellation reaches the loop task at its await: CancelledError is
\* no Exception, the loop ends and its refresh is abandoned
LoopCancelled ==
    /\ \E t \in 1..Len(loops) :
          /\ loops[t].cancelling
          /\ loops[t].pc # "ended"
          /\ loops' = [loops EXCEPT ![t] = [pc |-> "ended", tasks |-> <<>>,
                                            wait |-> 0, cancelling |-> FALSE]]
          /\ plast' = Event("loop_cancelled", FALSE, t, <<>>, 0)
    /\ UNCHANGED <<interval, task, stops, adhoc, quotes, warm>>
    /\ UNCHANGED <<storeVars, priceVars>>

\* stop() that returns without its await
StopWithoutAwait ==
    /\ \E s \in 1..Len(stops) :
          /\ task' = 0
          /\ stops' = Pop(stops, s)
          /\ plast' = Event("stop_return", FALSE, stops[s].target, <<>>, 0)
    /\ UNCHANGED <<interval, loops, adhoc, quotes, warm>>
    /\ UNCHANGED <<storeVars, priceVars>>

\* stop() after its await: the task has ended, `self._task = None`
StopReturn ==
    /\ \E s \in 1..Len(stops) :
          /\ loops[stops[s].target].pc = "ended"
          /\ task' = 0
          /\ stops' = Pop(stops, s)
          /\ plast' = Event("stop_return", FALSE, stops[s].target, <<>>, 0)
    /\ UNCHANGED <<interval, loops, adhoc, quotes, warm>>
    /\ UNCHANGED <<storeVars, priceVars>>

\* _loop: `await self.refresh_now()` begins, at the start of the task or
\* after a sleep
LoopRefresh(t) ==
    /\ Runs(t)
    /\ loops[t].pc \in {"created", "sleeping"}
    /\ loops' = [loops EXCEPT ![t].pc = "refreshing", ![t].tasks = RefreshStarted]
    /\ warm' = NoWarm
    /\ adhoc' = Forget(adhoc)
    /\ plast' = Event("loop_refresh", FALSE, t, <<>>, 0)
    /\ UNCHANGED <<interval, task, stops, quotes>>
    /\ UNCHANGED <<storeVars, priceVars>>

\* _loop: refresh_now returns, then `await asyncio.sleep(self.interval)`
LoopRefreshDone(t) ==
    /\ Runs(t)
    /\ loops[t].pc = "refreshing"
    /\ \E outcomes \in RefreshOutcomes(loops[t].tasks) :
          \E done \in {RefreshFinished(loops[t].tasks, outcomes)} :
              /\ cache' = StoreAll(cache, done, 1)
              /\ plast' = Event("loop_done", FALSE, t, QuoteDict(done),
                                Fetched(done))
    /\ loops' = [loops EXCEPT ![t].pc = "sleeping", ![t].tasks = <<>>,
                              ![t].wait = interval]
    /\ warm' = NoWarm
    /\ adhoc' = Forget(adhoc)
    /\ UNCHANGED <<interval, task, stops, quotes>>
    /\ UNCHANGED <<ttl, max_retries, package, now, calls>>
    /\ UNCHANGED storeVars

\* _loop without its except clause: the exception ends the task
LoopRefreshEnds(t) ==
    /\ Runs(t)
    /\ loops[t].pc = "refreshing"
    /\ loops' = [loops EXCEPT ![t].pc = "ended", ![t].tasks = <<>>,
                              ![t].wait = 0]
    /\ plast' = Event("loop_raised", FALSE, t, <<>>, 0)
    /\ UNCHANGED <<interval, task, stops, adhoc, quotes, warm>>
    /\ UNCHANGED <<storeVars, priceVars>>

\* _loop: refresh_now raises an Exception, then `await asyncio.sleep(5)`
LoopRefreshRaises(t) ==
    /\ Runs(t)
    /\ loops[t].pc = "refreshing"
    /\ loops' = [loops EXCEPT ![t].pc = "sleeping", ![t].tasks = <<>>,
                              ![t].wait = LoopBackoff]
    /\ plast' = Event("loop_raised", FALSE, t, <<>>, 0)
    /\ UNCHANGED <<interval, task, stops, adhoc, quotes, warm>>
    /\ UNCHANGED <<storeVars, priceVars>>

\* one step of the loop task t
LoopStep(t) ==
    /\ t <= Len(loops)
    /\ LoopRefresh(t) \/ LoopRefreshDone(t) \/ LoopRefreshRaises(t)

\* a tool call awaits poller.refresh_now()
RefreshNow ==
    /\ Len(adhoc) < MaxAdhoc
    /\ adhoc' = Append(Forget(adhoc), [op |-> "refresh_now",
                                        tasks |-> RefreshStarted,
                                        prior |-> NoWarm])
    /\ warm' = NoWarm
    /\ plast' = Event("refresh_now", FALSE, 0, <<>>, 0)
    /\ UNCHANGED <<interval, task, loops, stops, quotes>>
    /\ UNCHANGED <<storeVars, priceVars>>

\* ensure_warm(): cached_quotes() copies _quotes; returned if not empty,
\* otherwise `await self.refresh_now()`
EnsureWarm ==
    /\ Len(adhoc) < MaxAdhoc
    /\ IF quotes # <<>>
       THEN /\ plast' = Event("ensure_warm_return", TRUE, 0, quotes, 0)
            /\ warm' = [known |-> TRUE, result |-> quotes]
            /\ UNCHANGED adhoc
       ELSE /\ adhoc' = Append(adhoc, [op |-> "ensure_warm",
                                       tasks |-> RefreshStarted,
                                       prior |-> warm])
            /\ plast' = Event("ensure_warm", FALSE, 0, <<>>, 0)
            /\ UNCHANGED warm
    /\ UNCHANGED <<interval, task, loops, stops, quotes>>
    /\ UNCHANGED <<storeVars, priceVars>>

\* the refresh_now of a tool call returns its mapping
AdhocReturn ==
    /\ \E a \in 1..Len(adhoc) : \E outcomes \in RefreshOutcomes(adhoc[a].tasks) :
          \E done \in {RefreshFinished(adhoc[a].tasks, outcomes)} :
              /\ cache' = StoreAll(cache, done, 1)
              /\ IF adhoc[a].op = "ensure_warm"
                 THEN /\ plast' = Event("ensure_warm_return", FALSE, 0,
                                        QuoteDict(done), Fetched(done))
                      /\ warm' = [known |-> TRUE, result |-> QuoteDict(done)]
                      /\ adhoc' = Pop(adhoc, a)
                 ELSE /\ plast' = Event("refresh_now_return", FALSE, 0,
                                        QuoteDict(done), Fetched(done))
                      /\ warm' = NoWarm
                      /\ adhoc' = Forget(Pop(adhoc, a))
    /\ UNCHANGED <<interval, task, loops, stops, quotes>>
    /\ UNCHANGED <<ttl, max_retries, package, now, calls>>
    /\ UNCHANGED storeVars

\* a second passes
PollerTick ==
    /\ now < MaxTime
    /\ now' = now + 1
    /\ UNCHANGED <<ttl, max_retries, package, cache, calls>>
    /\ UNCHANGED <<storeVars, pollerVars>>

\* the store the poller reads its symbols from
SymbolHK0700 == <<"0","7","0","0",".","H","K">>
PollerFile ==
    [exists |-> TRUE, content |->
        PortfolioFile("CNY", <<>>,
            <<PortfolioDefinition("p1", "n1", NoneStr,
                  <<Holding(<<"h","k">>, SymbolHK0700, 10, 5)>>)>>)]

\* PriceService(ttl_seconds) and PricePoller(store, service,
\* interval_seconds) of src/app, beside a constructed store
PollerInitOn(ttls, intervals) ==
    /\ StoreInitOn({PollerFile})
    /\ \E ttl_seconds \in ttls : ttl = TtlOf(ttl_seconds)
    /\ max_retries = 0
    /\ now = 0
    /\ cache = <<>>
    /\ calls = <<>>
    /\ package = "app"
    /\ \E interval_seconds \in intervals :
          interval = IF interval_seconds > 0 THEN interval_seconds ELSE 0
    /\ task = 0
    /\ loops = <<>>
    /\ stops = <<>>
    /\ adhoc = <<>>
    /\ quotes = <<>>
    /\ warm = NoWarm
    /\ plast = NoEvent

PollerInit == PollerInitOn({0}, {-1, 0, 2})

NextPoller ==
    \/ Start
    \/ StopCall
    \/ LoopCancelled
    \/ StopReturn
    \/ \E t \in 1..MaxTasks : LoopStep(t)
    \/ RefreshNow
    \/ AdhocReturn

\* start, stop and the periodic loop under every interleaving, with the
\* refresh_now of tool calls
SpecPoller == PollerInit /\ [][NextPoller]_vars

LoopInit == PollerInitOn({0}, {2, 7})

NextLoop ==
    \/ Start
    \/ StopCall
    \/ LoopCancelled
    \/ StopReturn
    \/ \E t \in 1..MaxTasks : LoopStep(t)

\* start, stop and the periodic loop alone. The event loop resumes every
\* task whose await has completed: a loop task that can take a step takes
\* one
SpecLoopFair ==
    /\ LoopInit
    /\ [][NextLoop]_vars
    /\ \A t \in 1..MaxTasks : WF_vars(LoopStep(t))

WarmInit == PollerInitOn({0, 1}, {-1, 2})

NextWarm ==
    \/ Start
    \/ \E t \in 1..MaxTasks : LoopStep(t)
    \/ RefreshNow
    \/ EnsureWarm
    \/ AdhocReturn
    \/ PollerTick

\* ensure_warm and refresh_now of tool calls beside the periodic loop, with
\* the clock advancing
SpecWarm == WarmInit /\ [][NextWarm]_vars

----------------------------------------------------------------------------
(* PortfolioApp: the holding operations of src/portfolio_mcp/app.py, each  *)
(* a store call, store.reload() and `await self.poller.refresh_now()`.     *)

\* refresh_now up to its await, on the symbols of the index m
RefreshStartedFor(m) ==
    CHOOSE started \in
        {[i \in 1..Len(symbols) |-> StartedTask(symbols[i], cache, now)] :
            symbols \in {Symbols(m)}} : TRUE

\* the rest of a holding operation once its store call is made. A store
\* call that raised ends the operation. store.reload() reads the file the
\* store call has just saved: it leaves _data and the index as the store
\* call left them, and raises when the document fails validation. Then
\* refresh_now() starts one fetch per symbol of the store.
AfterStoreCall ==
    IF /\ last'.ok
       /\ file'.exists
       /\ ModelValid(ModelValidate(file'.content))
       /\ BuildMapOK(ModelValidate(file'.content))
    THEN /\ adhoc' = Append(Forget(adhoc),
                            [op |-> "refresh_now",
                             tasks |-> RefreshStartedFor(portfolios_map'),
                             prior |-> NoWarm])
         /\ warm' = NoWarm
         /\ plast' = Event("refresh_now", FALSE, 0, <<>>, 0)
         /\ UNCHANGED <<interval, task, loops, stops, quotes>>
         /\ UNCHANGED priceVars
    ELSE /\ UNCHANGED pollerVars
         /\ UNCHANGED priceVars

\* (portfolio_id, symbol, quantity, name) of PortfolioApp.add_holding
AppHoldingArgs == {"p1", "p2"} \X {AAPL, <<>>} \X {40, -4} \X {NoneStr, "Apple"}

\* Holding(id=None, symbol=..., quantity=..., cost_basis=5, name=...)
NamedHolding(symbol, quantity, name) ==
    [id |-> NoneId, symbol |-> symbol, quantity |-> quantity, cost_basis |-> 20,
     name |-> name]

\* PortfolioApp.add_holding with a symbol or without, no search_query, up
\* to its store call
AppAddHoldingWith(a) ==
    IF a[2] = <<>>
    THEN /\ UNCHANGED <<file, data, portfolios_map>>
         /\ last' = Call("add_holding", a[1], NoneId, FALSE, FALSE,
                         "symbol or search_query must be provided", NoHolding)
    ELSE IF ~HoldingValid(NamedHolding(a[2], a[3], a[4]))
    THEN /\ UNCHANGED <<file, data, portfolios_map>>
         /\ last' = Call("add_holding", a[1], NoneId, FALSE, FALSE,
                         "ValidationError", NoHolding)
    ELSE add_holding(a[1], NamedHolding(a[2], a[3], a[4]))

\* PortfolioApp.add_holding
AppAddHolding ==
    /\ Len(adhoc) < MaxAdhoc
    /\ TotalHoldings(data) < MaxHoldings
    /\ \E a \in AppHoldingArgs : AppAddHoldingWith(a)
    /\ AfterStoreCall

\* PortfolioApp.remove_holding
AppRemoveHolding ==
    /\ Len(adhoc) < MaxAdhoc
    /\ \E pid \in {"p1", "p2"}, key \in {<<"h", "k">>, aapl} :
          remove_holding(pid, key)
    /\ AfterStoreCall

\* PortfolioApp.update_holding, which has no symbol argument
AppUpdateHolding ==
    /\ Len(adhoc) < MaxAdhoc
    /\ \E pid \in {"p1", "p2"}, id \in {<<"h", "k">>, aapl},
          quantity \in {None, Some(20)}, cost_basis \in {None, Some(28)} :
          update_holding(pid, id, quantity, cost_basis, None)
    /\ AfterStoreCall

AppInit == PollerInitOn({0, 1}, {0})

NextApp ==
    \/ AppAddHolding
    \/ AppRemoveHolding
    \/ AppUpdateHolding
    \/ AdhocReturn
    \/ PollerTick

\* the holding operations of the application and the refreshes they start
SpecApp == AppInit /\ [][NextApp]_vars

\* store.reload() on the file f, from the pair (_data, _portfolios) st:
\* the pair it leaves and the error it raises, "" when it raises none
Reloaded(f, st) ==
    IF ~f.exists
    THEN [data |-> EmptyPortfolioFile, map |-> st.map, err |-> ""]
    ELSE LET d == ModelValidate(f.content)
         IN  IF ~ModelValid(d)
             THEN [data |-> st.data, map |-> st.map, err |-> "ValidationError"]
             ELSE IF ~BuildMapOK(d)
             THEN [data |-> d, map |-> st.map, err |-> "ValueError"]
             ELSE [data |-> d, map |-> BuildPortfolioMap(d), err |-> ""]

\* portfolio_metadata: one entry per portfolio of the index
portfolio_metadata(m) ==
    [i \in 1..Len(m) |->
        [id |-> m[i].id, name |-> m[i].name, holding_count |-> Len(m[i].holdings)]]

\* list_portfolios: the aggregate entry, then the entries of the index
list_portfolios(m) ==
    LET meta == portfolio_metadata(m)
        RECURSIVE Total(_)
        Total(i) == IF i = 0 THEN 0 ELSE meta[i].holding_count + Total(i - 1)
        combined == [id |-> AGGREGATE_PORTFOLIO_ID, name |-> "All Portfolios",
                     holding_count |-> Total(Len(meta))]
    IN  <<combined>> \o meta

\* portfolio_id of PortfolioApp.create_portfolio
AppPortfolioIdArgs == {"", AGGREGATE_PORTFOLIO_ID, "p1", "p3"}

\* PortfolioApp.create_portfolio: store.create_portfolio, then
\* store.reload() of the file it saved
AppCreatePortfolio ==
    /\ Len(data.portfolios) < MaxPortfolios
    /\ \E pid \in AppPortfolioIdArgs :
          LET st == Ensured
              err == CreateError(st.map, pid)
              d == [st.data EXCEPT !.portfolios =
                       Append(@, PortfolioDefinition(pid, "n1", NoneStr, <<>>))]
              r == Reloaded(SavedFile(d), [data |-> d, map |-> BuildPortfolioMap(d)])
          IN  IF err # ""
              THEN Rejected("create_portfolio", pid, NoneId, FALSE, err)
              ELSE /\ file' = SavedFile(d)
                   /\ data' = r.data
                   /\ portfolios_map' = r.map
                   /\ last' = Call("create_portfolio", pid, NoneId, FALSE,
                                   r.err = "", r.err, NoHolding)
    /\ UNCHANGED priceVars
    /\ UNCHANGED pollerVars

ListingInit ==
    /\ StoreInitOn({MissingFile, EmptyDocument, LegacyFile, StructuredFile})
    /\ PriceIdle
    /\ PollerIdle

NextListing ==
    \/ AppCreatePortfolio
    \/ DeletePortfolio
    \/ AddHolding
    \/ RemoveHolding

\* the portfolios list_portfolios reports while portfolios are created and
\* deleted and holdings added and removed
SpecListing == ListingInit /\ [][NextListing]_vars

----------------------------------------------------------------------------
(* Valuation: PortfolioStore.snapshots and summary. quantity, cost_basis   *)
(* and price are floats; the model keeps each as the integer number of     *)
(* quarters it holds and computes with exact fractions.                    *)

\* the quarters in one unit of quantity, cost_basis and price
NumberScale == 4

RECURSIVE GCD(_, _)
GCD(a, b) == IF b = 0 THEN a ELSE GCD(b, a % b)

Abs(x) == IF x < 0 THEN -x ELSE x

\* the fraction n/d in lowest terms, d > 0
Rat(n, d) ==
    LET sign == IF d < 0 THEN -1 ELSE 1
        g == GCD(Abs(n), Abs(d))
    IN  [n |-> (sign * n) \div g, d |-> (sign * d) \div g]

RatZero == Rat(0, 1)
RatOne == Rat(1, 1)

\* the float of a stored number
FromNumber(x) == Rat(x, NumberScale)

RatAdd(a, b) == Rat(a.n * b.d + b.n * a.d, a.d * b.d)
RatSub(a, b) == Rat(a.n * b.d - b.n * a.d, a.d * b.d)
RatMul(a, b) == Rat(a.n * b.n, a.d * b.d)
RatDiv(a, b) == Rat(a.n * b.d, a.d * b.n)
RatLess(a, b) == a.n * b.d < b.n * a.d

RECURSIVE Pow10(_)
Pow10(k) == IF k = 0 THEN 1 ELSE 10 * Pow10(k - 1)

\* x cut to ndigits decimals, towards minus infinity
RoundDown(x, ndigits) ==
    Rat((x.n * Pow10(ndigits)) \div x.d, Pow10(ndigits))

\* round(x, ndigits): the nearest multiple of 10^-ndigits, a tie going to
\* the even one
Round(x, ndigits) ==
    LET scaled == x.n * Pow10(ndigits)
        floor == scaled \div x.d
        twice == 2 * (scaled % x.d)
        nearest == IF twice < x.d THEN floor
                   ELSE IF twice > x.d THEN floor + 1
                   ELSE IF floor % 2 = 0 THEN floor
                   ELSE floor + 1
    IN  Rat(nearest, Pow10(ndigits))

RECURSIVE RatSum(_)
\* sum(...) of a sequence of fractions
RatSum(xs) == IF xs = <<>> THEN RatZero ELSE RatAdd(Head(xs), RatSum(Tail(xs)))

\* Holding.book_value()
BookValue(h) == RatMul(FromNumber(h.quantity), FromNumber(h.cost_basis))

\* a HoldingSnapshot valued at cost: the quote's price is not used
SnapshotAtCost(definition, holding, mapping) ==
    LET quote == SnapshotQuote(mapping, holding)
        market_value == IF quote.price # None THEN Some(BookValue(holding))
                        ELSE None
    IN  [holding |-> holding, quote |-> quote, market_value |-> market_value,
         gain_abs |-> IF market_value # None THEN Some(RatZero) ELSE None,
         gain_pct |-> IF market_value # None /\ RatLess(RatZero, BookValue(holding))
                      THEN Some(RatZero) ELSE None,
         portfolio_id |-> definition.id, portfolio_name |-> definition.name]

\* one HoldingSnapshot of snapshots()
Snapshot(definition, holding, mapping) ==
    LET quote == SnapshotQuote(mapping, holding)
        market_value ==
            IF quote.price # None
            THEN Some(RatMul(FromNumber(holding.quantity),
                             FromNumber(Given(quote.price))))
            ELSE None
        gain_abs ==
            IF market_value # None
            THEN Some(RatSub(Given(market_value), BookValue(holding)))
            ELSE None
        gain_pct ==
            IF market_value # None /\ RatLess(RatZero, BookValue(holding))
            THEN Some(RatSub(RatDiv(Given(market_value), BookValue(holding)),
                             RatOne))
            ELSE None
    IN  [holding |-> holding, quote |-> quote, market_value |-> market_value,
         gain_abs |-> gain_abs, gain_pct |-> gain_pct,
         portfolio_id |-> definition.id, portfolio_name |-> definition.name]

\* snapshots(quotes, portfolio_id), when _iter_holdings does not raise
Snapshots(m, mapping, portfolio_id) ==
    LET pairs == IterHoldings(m, portfolio_id)
    IN  [i \in 1..Len(pairs) |-> Snapshot(pairs[i][1], pairs[i][2], mapping)]

\* _latest_timestamp(quotes.values()) at time t; fetched_at -1 is None
LatestTimestamp(mapping, t) ==
    LET ts == {mapping[k].fetched_at : k \in DOMAIN mapping} \ {-1}
    IN  IF ts = {} THEN t
        ELSE CHOOSE x \in ts : \A y \in ts : y <= x

\* summary(quotes, portfolio_id) at time t, when snapshots() does not raise
Summary(d, m, mapping, portfolio_id, t) ==
    LET snapshots == Snapshots(m, mapping, portfolio_id)
        total_book ==
            RatSum([i \in 1..Len(snapshots) |-> BookValue(snapshots[i].holding)])
        total_market ==
            RatSum([i \in 1..Len(snapshots) |->
                       IF snapshots[i].market_value # None
                       THEN Given(snapshots[i].market_value)
                       ELSE RatZero])
        total_gain == RatSub(total_market, total_book)
        total_gain_pct ==
            IF total_book # RatZero
            THEN RatSub(RatDiv(total_market, total_book), RatOne)
            ELSE RatZero
        definition == IF portfolio_id # None
                      THEN MapGet(m, Given(portfolio_id))
                      ELSE PortfolioDefinition(AGGREGATE_PORTFOLIO_ID,
                                               "All Portfolios", NoneStr, <<>>)
    IN  [base_currency |-> d.base_currency,
         portfolio_id |-> definition.id,
         portfolio_name |-> definition.name,
         total_book |-> Round(total_book, 2),
         total_market |-> Round(total_market, 2),
         total_gain |-> Round(total_gain, 2),
         total_gain_pct |-> Round(total_gain_pct, 4),
         refreshed_at |-> LatestTimestamp(mapping, t),
         symbols |-> Sorted({snapshots[i].holding.symbol : i \in 1..Len(snapshots)}),
         holding_count |-> Len(snapshots)]

\* the record of a read of the store, kept in `last` with the quote mapping
\* it was given; portfolio_id is None or Some(id)
ViewCall(op, portfolio_id, mapping, ok, err, ret) ==
    [op |-> op, pid |-> portfolio_id, key |-> NoneId, force |-> FALSE,
     ok |-> ok, err |-> err, ret |-> ret, quotes |-> mapping]

\* store.snapshots(quotes, portfolio_id)
SnapshotsCall ==
    /\ "quotes" \in DOMAIN last
    /\ last' = IF IterRaises(portfolios_map, last.pid)
               THEN ViewCall("snapshots", last.pid, last.quotes, FALSE,
                             "Unknown portfolio id", <<>>)
               ELSE ViewCall("snapshots", last.pid, last.quotes, TRUE, "",
                             Snapshots(portfolios_map, last.quotes, last.pid))
    /\ UNCHANGED <<file, data, portfolios_map>>
    /\ UNCHANGED <<priceVars, pollerVars>>

\* store.summary(quotes, portfolio_id)
SummaryCall ==
    /\ "quotes" \in DOMAIN last
    /\ last' = IF IterRaises(portfolios_map, last.pid)
               THEN ViewCall("summary", last.pid, last.quotes, FALSE,
                             "Unknown portfolio id", <<>>)
               ELSE ViewCall("summary", last.pid, last.quotes, TRUE, "",
                             Summary(data, portfolios_map, last.quotes,
                                     last.pid, now))
    /\ UNCHANGED <<file, data, portfolios_map>>
    /\ UNCHANGED <<priceVars, pollerVars>>

SymbolX == <<"X">>

\* portfolio "p1" holding 10 units of "X" at cost 5
ExampleFile ==
    [exists |-> TRUE, content |->
        PortfolioFile("USD", <<>>,
            <<PortfolioDefinition("p1", "n1", NoneStr,
                  <<Holding(<<"x">>, SymbolX, 40, 20)>>)>>)]

\* two portfolios: 0.5 units of "AAPL" at cost 0.25 in the first; in the
\* second 0.5 units of "BRK.B" at cost 0.25, none of "aapl" at cost 1.25,
\* and 1.75 units of "X" at cost 1.25
FractionFile ==
    [exists |-> TRUE, content |->
        PortfolioFile("CNY", <<>>,
            <<PortfolioDefinition("p1", "n1", NoneStr,
                  <<Holding(aapl, AAPL, 2, 1)>>),
              PortfolioDefinition("p2", NoneStr, NoneStr,
                  <<Holding(brkDotB, BRKB, 2, 1), Holding(aapl, aapl, 0, 5),
                    Holding(<<"x">>, SymbolX, 7, 5)>>)>>)]

ViewFiles == {MissingFile, LegacyFile, ExampleFile, FractionFile}

\* the portfolio_id of a read: None for the aggregate
ScopeArgs == {None, Some(DEFAULT_PORTFOLIO_ID), Some("p1"), Some("p2")}

\* the quotes a mapping can hold under a key: no price, 7, or 0.25 at a
\* later time
QuoteChoices(k) ==
    {PriceQuote(k, None, 0), PriceQuote(k, Some(28), 0), PriceQuote(k, Some(1), 1)}

\* the quote mappings: any of the keys, each with one of its quotes
QuoteMappings ==
    UNION {{f \in [keys -> UNION {QuoteChoices(k) : k \in keys}] :
               \A k \in keys : f[k].symbol = k} :
           keys \in SUBSET {SymbolX, AAPL, BRKB}}

\* a store constructed on a file, a quote mapping and a scope to read it
\* with, at a time later than every fetched_at
ViewsInit ==
    /\ \E f \in ViewFiles :
          /\ ConstructOK(f)
          /\ file = f
          /\ data = Constructed(f).data
          /\ portfolios_map = Constructed(f).map
    /\ \E mapping \in QuoteMappings, portfolio_id \in ScopeArgs :
          last = ViewCall("init", portfolio_id, mapping, TRUE, "", <<>>)
    /\ ttl = 0
    /\ max_retries = 0
    /\ now = MaxTime + 1
    /\ cache = <<>>
    /\ calls = <<>>
    /\ package = "app"
    /\ PollerIdle

NextViews ==
    \/ SnapshotsCall
    \/ SummaryCall

\* snapshots and summary on every store, mapping and scope
SpecViews == ViewsInit /\ [][NextViews]_vars

----------------------------------------------------------------------------
(* Properties of the store.                                                *)

\* the holdings the index shows for portfolio pid, none for an unknown id
HoldingsOf(m, pid) == IF InMap(m, pid) THEN MapGet(m, pid).holdings ELSE <<>>

\* C1: delete_portfolio on a store with exactly one portfolio is rejected,
\* whatever the id and whatever force, and no store call takes a store with
\* at least one portfolio to a store with none.
C1_LastPortfolioStays ==
    [][/\ Len(portfolios_map) >= 1 => Len(portfolios_map') >= 1
       /\ \A pid \in PortfolioIdArgs, force \in BOOLEAN :
             (Len(portfolios_map) <= 1 /\ delete_portfolio(pid, force))
                 => /\ ~last'.ok
                    /\ Len(portfolios_map') = 1
                    /\ file' = file]_vars

\* C1: the last portfolio was asked to be deleted with force, and is there
C1_Witness ==
    /\ last.op = "delete_portfolio"
    /\ last.force
    /\ ~last.ok
    /\ last.err = "Cannot delete the last portfolio"
    /\ Len(portfolios_map) = 1
    /\ portfolios_map[1].id = last.pid

\* the ids of the index are pairwise different
PortfolioIdsUnique(m) ==
    \A i, j \in 1..Len(m) : i # j => m[i].id # m[j].id

\* C2: portfolio ids are unique; create_portfolio with an empty id or an id
\* the store has is rejected and leaves the portfolio list as it was, and
\* with any other id it appends the new portfolio after the existing ones.
C2_CreateKeepsIdsUnique ==
    [][/\ PortfolioIdsUnique(portfolios_map')
       /\ \A pid \in PortfolioIdArgs :
             create_portfolio(pid, "n1", NoneStr)
                 => IF pid = "" \/ InMap(portfolios_map, pid)
                    THEN ~last'.ok /\ portfolios_map' = portfolios_map
                    ELSE /\ last'.ok
                         /\ portfolios_map' =
                               Append(portfolios_map,
                                      PortfolioDefinition(pid, "n1", NoneStr, <<>>))]_vars

\* C3: no two holdings of one portfolio share an id, in the store as loaded
\* and after every holding operation; add_holding is rejected as a duplicate
\* only for an id its own portfolio has.
C3_HoldingIdsUnique ==
    /\ \A p \in 1..Len(portfolios_map) :
          \A i, j \in 1..Len(portfolios_map[p].holdings) :
              i # j => portfolios_map[p].holdings[i].id # portfolios_map[p].holdings[j].id
                       \/ portfolios_map[p].holdings[i].id = NoneId
    /\ (last.op = "add_holding" /\ last.err = "already exists")
          => \E i \in 1..Len(HoldingsOf(portfolios_map, last.pid)) :
                HoldingsOf(portfolios_map, last.pid)[i].id = last.key

\* C4: a rejected store operation leaves the in-memory PortfolioFile, the
\* portfolio-id index and the persisted file exactly as they were.
C4_RejectedChangesNothing ==
    [][~last'.ok => /\ data' = data
                    /\ portfolios_map' = portfolios_map
                    /\ file' = file]_vars

\* C5: when a successful mutating operation has returned, the file holds
\* exactly the in-memory portfolios and holdings, and the index has exactly
\* the portfolios of the in-memory list, each under its own id.
C5_SavedAndIndexed ==
    (last.ok /\ last.op # "init")
        => /\ file.exists
           /\ file.content.portfolios = data.portfolios
           /\ file.content.holdings = data.holdings
           /\ file.content.base_currency = data.base_currency
           /\ Len(portfolios_map) = Len(data.portfolios)
           /\ \A i \in 1..Len(data.portfolios) :
                 /\ InMap(portfolios_map, data.portfolios[i].id)
                 /\ MapGet(portfolios_map, data.portfolios[i].id) = data.portfolios[i]

\* C5: a portfolio was created on a store loaded from the legacy layout, and
\* the file and the index show it after the default portfolio
C5_Witness ==
    /\ last.op = "create_portfolio"
    /\ last.ok
    /\ Len(data.portfolios) = 2
    /\ data.portfolios[1].id = DEFAULT_PORTFOLIO_ID
    /\ Len(data.portfolios[1].holdings) = 2
    /\ file.content.portfolios = data.portfolios
    /\ Len(portfolios_map) = 2

\* seq without its element at index i
Without(seq, i) == SubSeq(seq, 1, i - 1) \o SubSeq(seq, i + 1, Len(seq))

\* C6: when two holdings of a portfolio share a symbol and have different
\* ids, remove_holding with the id of either succeeds, removes exactly that
\* holding and leaves the other.
C6_RemoveByIdOfSharedSymbol ==
    [][(last'.op = "remove_holding" /\ remove_holding(last'.pid, last'.key))
          => LET pid == last'.pid
                 hs == HoldingsOf(portfolios_map, pid)
                 own == {i \in 1..Len(hs) : hs[i].id = last'.key}
             IN  (\E i \in own : \E j \in 1..Len(hs) :
                     /\ j # i
                     /\ hs[j].symbol = hs[i].symbol
                     /\ hs[j].id # hs[i].id)
                    => /\ last'.ok
                       /\ \E i \in own :
                             /\ last'.ret = hs[i]
                             /\ HoldingsOf(portfolios_map', pid) = Without(hs, i)]_vars

\* the holdings of hs that key names: by its id exactly, or by its symbol
\* whatever the letter case
Named(hs, key) ==
    {i \in 1..Len(hs) : hs[i].id = key \/ StrUpper(hs[i].symbol) = StrUpper(key)}

\* C7: remove_holding succeeds exactly when key names one holding of the
\* portfolio, by exact id or by symbol ignoring case, and then removes that
\* one; when it names none or several it fails, and the holdings of every
\* portfolio and the file are unchanged.
C7_RemoveMatching ==
    [][(/\ last'.op = "remove_holding"
        /\ remove_holding(last'.pid, last'.key)
        /\ InMap(portfolios_map, last'.pid))
          => LET pid == last'.pid
                 key == last'.key
                 hs == HoldingsOf(portfolios_map, pid)
             IN  /\ last'.ok <=> Cardinality(Named(hs, key)) = 1
                 /\ last'.ok
                       => \E i \in Named(hs, key) :
                             /\ last'.ret = hs[i]
                             /\ HoldingsOf(portfolios_map', pid) = Without(hs, i)
                 /\ ~last'.ok
                       => /\ file' = file
                          /\ \A p \in 1..Len(portfolios_map) :
                                HoldingsOf(portfolios_map', portfolios_map[p].id)
                                    = portfolios_map[p].holdings]_vars

\* C7: a removal by a symbol that two holdings share was rejected as
\* ambiguous and both holdings are there
C7_Witness ==
    /\ last.op = "remove_holding"
    /\ last.key = AAPL
    /\ ~last.ok
    /\ last.err = "Multiple holdings match"
    /\ Cardinality(Named(HoldingsOf(portfolios_map, last.pid), AAPL)) = 2

\* base followed by "-k"
Suffixed(base, k) == base \o <<"-">> \o IntToStr(k)

\* the smallest k >= 1 for which base-k is not in ids
SmallestFree(ids, base) ==
    CHOOSE k \in 1..(Cardinality(ids) + 1) :
        /\ Suffixed(base, k) \notin ids
        /\ \A j \in 1..(k - 1) : Suffixed(base, j) \in ids

\* the documented id: the base when no holding has it, otherwise
\* the base with the smallest free suffix
DescribedId(ids, base) ==
    IF base \notin ids THEN base ELSE Suffixed(base, SmallestFree(ids, base))

\* the same, with the empty base never assigned
DescribedIdNonEmpty(ids, base) ==
    IF base # <<>> /\ base \notin ids THEN base
    ELSE Suffixed(base, SmallestFree(ids, base))

\* the symbols the derivation is examined on
DerivationSymbols == {AAPL, BRKB, aapl, <<>>}

\* the ids of the holdings hs
IdsOf(hs) == {hs[i].id : i \in 1..Len(hs)}

\* the derivation applied to every portfolio of the index and every symbol,
\* and the id of the holding the last add_holding without an id stored,
\* against the id `described` gives
DerivationAgrees(described(_, _)) ==
    /\ \A p \in 1..Len(portfolios_map), symbol \in DerivationSymbols :
          LET ids == IdsOf(portfolios_map[p].holdings)
              g == GenerateHoldingId(portfolios_map[p], symbol)
          IN  /\ g.id = described(ids, ReplaceDots(StrLower(symbol)))
              /\ g.id \notin ids
              /\ g.turns <= Cardinality(ids) + 1
    /\ (last.op = "add_holding" /\ last.ok /\ Falsy(last.key))
          => LET hs == HoldingsOf(portfolios_map, last.pid)
                 before == IdsOf(SubSeq(hs, 1, Len(hs) - 1))
             IN  /\ hs[Len(hs)] = last.ret
                 /\ last.ret.id = described(before, ReplaceDots(StrLower(last.ret.symbol)))
                 /\ last.ret.id \notin before

\* C8 as stated: add_holding without an id assigns the base derived from the
\* symbol when no holding of the portfolio has it, otherwise the base with
\* the smallest free suffix; the derivation ends and its result is new.
C8_GeneratedIdAsStated == DerivationAgrees(DescribedId)

\* C8: add_holding without an id assigns the base derived from the symbol
\* when the base is not empty and no holding of the portfolio has it,
\* otherwise the base followed by "-k" for the smallest k >= 1 that is no id
\* of the portfolio; the derivation ends within one turn more than there
\* are ids, and its result is never an id of the portfolio.
C8_GeneratedId == DerivationAgrees(DescribedIdNonEmpty)

\* C8: symbol AAPL was added without an id to a portfolio holding id aapl
C8_Witness ==
    /\ last.op = "add_holding"
    /\ last.ok
    /\ Falsy(last.key)
    /\ last.ret.symbol = AAPL
    /\ last.ret.id = aapl1
    /\ aapl \in IdsOf(HoldingsOf(portfolios_map, last.pid))

----------------------------------------------------------------------------
(* Properties of the price service.                                        *)

\* the cache keys of the symbols requested
RequestedKeys ==
    UNION {{Normalize(symbols[i]) : i \in 1..Len(symbols)} : symbols \in Requests}

\* every task of call c has its result
Gathered(c) == \A i \in 1..Len(calls[c].tasks) : calls[c].tasks[i].pc = "done"

C10_ServedWhileLive ==
    [][/\ Len(calls') > Len(calls)
             => \A i \in 1..Len(calls'[Len(calls')].tasks) :
                   LET t == calls'[Len(calls')].tasks[i]
                       live == /\ t.key \in DOMAIN cache
                               /\ cache[t.key].expires_at > now
                   IN  /\ t.hit <=> live
                       /\ live => /\ t.pc = "done"
                                  /\ t.attempt = 0
                                  /\ t.quote = cache[t.key].quote
                       /\ ~live => t.pc = "fetching"
                       /\ ttl = 0 => ~t.hit
       /\ Len(calls') = Len(calls)
             => \A c \in 1..Len(calls) : \A i \in 1..Len(calls[c].tasks) :
                   LET t == calls[c].tasks[i]
                   IN  /\ (t.pc = "fetching" /\ calls'[c].tasks[i].pc # "fetching")
                             => /\ calls'[c].tasks[i].pc = "fetched"
                                /\ calls'[c].tasks[i].attempt >= 1
                                /\ cache' = cache
                       /\ (t.pc = "fetched" /\ calls'[c].tasks[i].pc # "fetched")
                             => /\ calls'[c].tasks[i].pc = "done"
                                /\ t.key \in DOMAIN cache'
                                /\ cache'[t.key].quote = t.quote
                                /\ cache'[t.key].expires_at = t.now + ttl
       /\ cache' # cache
             => \E c \in 1..Len(calls) : \E i \in 1..Len(calls[c].tasks) :
                   /\ calls[c].tasks[i].pc = "fetched"
                   /\ \A k \in DOMAIN cache :
                         k # calls[c].tasks[i].key
                             => k \in DOMAIN cache' /\ cache'[k] = cache[k]]_vars

\* C10: a lookup was served a stored failure quote one second before the
\* entry expires, with no fetch
C10_Witness ==
    \E c \in 1..Len(calls) : \E i \in 1..Len(calls[c].tasks) :
        /\ calls[c].tasks[i].hit
        /\ calls[c].tasks[i].attempt = 0
        /\ calls[c].tasks[i].quote.price = None
        /\ cache[calls[c].tasks[i].key].expires_at = now + 1

\* the retry loop run for every number of attempts up to MaxAttempts and
\* every sequence of provider answers
FetchLoopRuns ==
    [n \in 1..MaxAttempts |->
        [outcomes \in [1..n -> Outcomes] |->
            FetchLoop(AAPL, 0, n, outcomes, None, <<>>)]]

\* the waits in seconds before the second, third, ... attempt
DocumentedWaits == <<1, 2, 4, 5, 5, 5, 5>>

\* every run of the retry loop makes the documented attempts and waits
RunsAsDocumented ==
    \A n \in 1..MaxAttempts : \A outcomes \in [1..n -> Outcomes] :
        LET r == FetchLoopRuns[n][outcomes]
            priced == {k \in 1..n : outcomes[k] = "price"}
            tries == IF priced = {} THEN n
                     ELSE CHOOSE k \in priced : \A j \in priced : k <= j
        IN  /\ r.tries = tries
            /\ r.tries <= n
            /\ (r.price # None) <=> (priced # {})
            /\ Len(r.slept) = tries - 1
            /\ \A k \in 1..Len(r.slept) : r.slept[k] = DocumentedWaits[k]

\* C11: a fetch tries the provider at most max_retries + 1 times, exactly
\* that often when every attempt fails, and stops at the first attempt that
\* yields a price; before attempt k+1 it waits min(2^k, 5) seconds, and it
\* does not wait after its last attempt.
C11_RetriesAndBackoff ==
    /\ RunsAsDocumented
    /\ \A c \in 1..Len(calls) : \A i \in 1..Len(calls[c].tasks) :
          LET t == calls[c].tasks[i]
          IN  /\ t.attempt <= max_retries + 1
              /\ (t.pc # "fetching" /\ ~t.hit)
                    => /\ t.attempt >= 1
                       /\ t.quote.price = None => t.attempt = max_retries + 1

\* C11: a fetch got its price on the second attempt, after one failure
C11_Witness ==
    /\ max_retries = 1
    /\ \E c \in 1..Len(calls) : \E i \in 1..Len(calls[c].tasks) :
          /\ ~calls[c].tasks[i].hit
          /\ calls[c].tasks[i].pc = "fetched"
          /\ calls[c].tasks[i].attempt = 2
          /\ calls[c].tasks[i].quote.price # None
    /\ FetchLoopRuns[5][[k \in 1..5 |-> "raise"]].slept = <<1, 2, 4, 5>>

\* two spellings of one instrument: the same up to letter case, or two .HK
\* codes the same up to leading zeros
SameInstrument(a, b) ==
    \/ StrUpper(a) = StrUpper(b)
    \/ /\ EndsWith(StrUpper(a), <<".","H","K">>)
       /\ EndsWith(StrUpper(b), <<".","H","K">>)
       /\ LStripZeros(StrUpper(a)) = LStripZeros(StrUpper(b))

\* C12: two spellings of one instrument have the same cache key, and a
\* lookup of one spelling while an entry stored for the other is live is
\* served from the cache with no fetch.
C12_SpellingsShareEntry ==
    [][Len(calls') > Len(calls)
          => \A i \in 1..Len(calls'[Len(calls')].tasks) :
                LET t == calls'[Len(calls')].tasks[i]
                IN  /\ \A k \in DOMAIN cache :
                          SameInstrument(k, t.symbol) => k = t.key
                    /\ (\E k \in DOMAIN cache :
                           /\ SameInstrument(k, t.symbol)
                           /\ cache[k].expires_at > now)
                          => t.hit /\ t.attempt = 0]_vars

----------------------------------------------------------------------------
(* Properties of the poller.                                               *)

\* the holdings of the store, of every portfolio
AllHoldings ==
    UNION {{portfolios_map[p].holdings[i] :
               i \in 1..Len(portfolios_map[p].holdings)} :
              p \in 1..Len(portfolios_map)}

\* the last poller event is the return of a quote mapping by refresh_now
Refreshed == plast.op \in {"refresh_now_return", "loop_done"}

\* C13: the mapping refresh_now returns has exactly one entry per holding
\* symbol, under the upper-cased symbol, and snapshot gives a holding whose
\* fetch yielded a price that price.
C13_QuoteUnderHoldingSymbol ==
    Refreshed
        => /\ DOMAIN plast.result = {StrUpper(h.symbol) : h \in AllHoldings}
           /\ \A h \in AllHoldings :
                 (\E k \in DOMAIN plast.result :
                     /\ SameInstrument(k, h.symbol)
                     /\ plast.result[k].price # None)
                    => SnapshotQuote(plast.result, h).price # None

\* C14: start() launches no task when the interval is 0 or a task is
\* started, and otherwise launches one; while stop() is never called there
\* is at most one periodic task, and with interval 0 there is none.
C14_StartLaunchesOnce ==
    [][/\ Len(loops') <= 1
       /\ interval = 0 => loops' = <<>> /\ task' = 0
       /\ Start => IF task # 0 \/ interval = 0
                   THEN plast'.noop /\ loops' = loops /\ task' = task
                   ELSE /\ ~plast'.noop
                        /\ loops' = <<NewLoop>>
                        /\ task' = 1]_vars

\* C14: start() was called on a started poller, and there is its one task
C14_Witness ==
    /\ plast.op = "start"
    /\ plast.noop
    /\ interval = 2
    /\ task = 1
    /\ Len(loops) = 1
    /\ loops[1].pc = "sleeping"

\* C15: stop() on a started poller cancels the task the poller holds and
\* returns only when that task has ended, leaving the poller not started;
\* a cancelled task begins no refresh and an ended one does nothing more;
\* start() on the stopped poller launches a new task; stop() on a poller
\* that is not started changes nothing.
C15_StopEndsTheLoop ==
    [][/\ plast'.op = "stop" /\ StopCall =>
             IF task = 0
             THEN /\ plast'.noop
                  /\ UNCHANGED <<task, loops, stops, adhoc, quotes, cache>>
             ELSE /\ task' = task
                  /\ loops'[task].pc = "ended" \/ loops'[task].cancelling
       /\ plast'.op = "stop_return" /\ StopReturn =>
             /\ task' = 0
             /\ loops'[plast'.target].pc = "ended"
       /\ \A t \in 1..Len(loops) :
             /\ loops[t].pc = "ended" => loops'[t] = loops[t]
             /\ loops[t].cancelling =>
                   loops'[t].pc \in {loops[t].pc, "ended"}
       /\ plast'.op = "start" /\ Start /\ task = 0 /\ interval # 0 =>
             /\ Len(loops') = Len(loops) + 1
             /\ task' = Len(loops')
             /\ loops'[task'] = NewLoop]_vars

\* C15: a stop() has returned after the first task ended, and
\* a later start() has launched a second task
C15_Witness ==
    /\ plast.op = "start"
    /\ ~plast.noop
    /\ task = 2
    /\ stops = <<>>
    /\ loops[1].pc = "ended"
    /\ loops[2].pc = "created"

\* the loop task t exists and can run
Running(t) == t <= Len(loops) /\ Runs(t)

\* C16: a loop task ends only when a stop() has cancelled it; an iteration
\* that raised is followed by a wait of 5 s, one that succeeded by a wait
\* of the interval, and after either wait the next refresh_now begins; a
\* loop task that is not cancelled begins a refresh, and ends the refresh
\* it began, again and again.
C16_LoopEndsOnlyByStop ==
    /\ [][\A t \in 1..Len(loops) :
             /\ loops[t].pc # "ended" /\ loops'[t].pc = "ended" =>
                   /\ loops[t].cancelling
                   /\ \E s \in 1..Len(stops) : stops[s].target = t
             /\ loops[t].pc = "refreshing" /\ loops'[t].pc = "sleeping" =>
                   \/ plast'.op = "loop_raised" /\ loops'[t].wait = 5
                   \/ plast'.op = "loop_done" /\ loops'[t].wait = interval
             /\ loops[t].pc = "sleeping" /\ loops'[t].pc # "sleeping" =>
                   \/ loops'[t].pc = "refreshing"
                   \/ loops'[t].pc = "ended" /\ loops[t].cancelling]_vars
    /\ \A t \in 1..MaxTasks :
          /\ (Running(t) /\ loops[t].pc # "refreshing")
                ~> (~Running(t) \/ loops[t].pc = "refreshing")
          /\ (Running(t) /\ loops[t].pc = "refreshing")
                ~> (~Running(t) \/ loops[t].pc = "sleeping")

\* C16: an iteration raised, the loop waited 5 s and not the interval, and
\* its next refresh_now has begun
C16_Witness ==
    /\ interval = 7
    /\ Len(loops) = 1
    /\ Runs(1)
    /\ loops[1].pc = "refreshing"
    /\ loops[1].wait = 5

\* C17: no step of stop() and no cancellation of a loop task touches a
\* refresh_now of a tool call: the call stays in flight, can return, and
\* returns the mapping of its own fetches, one entry per key it asked for.
C17_StopSparesToolCalls ==
    /\ [](adhoc # <<>> => ENABLED AdhocReturn)
    /\ [][/\ (/\ plast'.op \in {"stop", "loop_cancelled", "stop_return"}
              /\ StopCall \/ LoopCancelled \/ StopReturn)
                => adhoc' = adhoc
          /\ plast'.op = "refresh_now_return" /\ AdhocReturn =>
                \E a \in 1..Len(adhoc) :
                   /\ Forget(adhoc') = Forget(Pop(adhoc, a))
                   /\ DOMAIN plast'.result =
                         {StrUpper(adhoc[a].tasks[i].key) :
                             i \in 1..Len(adhoc[a].tasks)}]_vars

\* C17: stop() has just cancelled a loop task in its refresh while the
\* refresh_now of a tool call is in flight
C17_Witness ==
    /\ plast.op = "stop"
    /\ ~plast.noop
    /\ loops[plast.target].cancelling
    /\ loops[plast.target].pc = "refreshing"
    /\ Len(adhoc) = 1
    /\ adhoc[1].op = "refresh_now"
    /\ Len(adhoc[1].tasks) = 1

\* C18: an ensure_warm() called after an ensure_warm() has returned, with
\* no refresh_now begun or ended since that return, returns the mapping the
\* earlier call returned and causes no provider fetch.
C18_EnsureWarmTwice ==
    [][/\ \A a \in 1..Len(adhoc) :
             (/\ adhoc' = Pop(adhoc, a)
              /\ adhoc[a].op = "ensure_warm"
              /\ adhoc[a].prior.known)
                => /\ plast'.op = "ensure_warm_return"
                   /\ plast'.result = adhoc[a].prior.result
                   /\ plast'.fetched = 0
       /\ (EnsureWarm /\ plast'.noop /\ warm.known)
             => plast'.result = warm.result]_vars

\* C19: when a refresh_now has returned a mapping that is not empty, the
\* poller holds that mapping: cached_quotes() returns it.
C19_HoldsLastFetched ==
    Refreshed /\ plast.result # <<>> => quotes = plast.result

----------------------------------------------------------------------------
(* Properties of the legacy layout.                                        *)

\* a flat holdings list and no portfolio list
Legacy(d) == d.portfolios = <<>> /\ d.holdings # <<>>

\* the "default" portfolio holding hs
DefaultOf(hs) ==
    PortfolioDefinition(DEFAULT_PORTFOLIO_ID, "Default Portfolio", NoneStr, hs)

RECURSIVE IsSubSeq(_, _)
\* a is b with some elements left out
IsSubSeq(a, b) ==
    IF a = <<>> THEN TRUE
    ELSE IF b = <<>> THEN FALSE
    ELSE IF Head(a) = Head(b) THEN IsSubSeq(Tail(a), Tail(b))
    ELSE IsSubSeq(a, Tail(b))

\* C20: while the file has the legacy layout the store presents its flat
\* holdings as the one portfolio "default"; the first operation that saves
\* writes the structured layout, with an empty flat list and a first
\* portfolio "default" holding the flat holdings in their order, changed
\* only by what the operation itself does to them; a structured file and a
\* materialized store never return to the legacy layout.
C20_LegacyMaterializedOnce ==
    /\ [](file.exists /\ Legacy(file.content) =>
             /\ portfolios_map = <<DefaultOf(file.content.holdings)>>
             /\ \/ data = file.content
                \/ /\ data.holdings = <<>>
                   /\ data.portfolios = portfolios_map)
    /\ [][/\ (file.exists /\ Legacy(file.content) /\ file' # file) =>
                /\ last'.ok
                /\ file' = SavedFile(data')
                /\ data'.holdings = <<>>
                /\ data'.portfolios # <<>>
                /\ data'.portfolios[1].id = DEFAULT_PORTFOLIO_ID
                /\ \A i \in 2..Len(data'.portfolios) :
                      data'.portfolios[i].holdings = <<>>
                /\ LET old == file.content.holdings
                       hs == data'.portfolios[1].holdings
                   IN  CASE last'.op \in {"create_portfolio", "update_portfolio"} ->
                               hs = old
                         [] last'.op = "add_holding" ->
                               /\ Len(hs) = Len(old) + 1
                               /\ SubSeq(hs, 1, Len(old)) = old
                         [] last'.op = "remove_holding" ->
                               /\ Len(hs) < Len(old)
                               /\ IsSubSeq(hs, old)
                         [] last'.op = "update_holding" ->
                               /\ Len(hs) = Len(old)
                               /\ Cardinality({i \in 1..Len(old) : hs[i] # old[i]}) <= 1
                               /\ \A i \in 1..Len(old) : hs[i].id = old[i].id
                         [] OTHER -> FALSE
          /\ (file.exists /\ ~Legacy(file.content)) =>
                /\ ~Legacy(file'.content)
                /\ file'.content.holdings = file.content.holdings
          /\ data.portfolios # <<>> =>
                /\ data'.portfolios # <<>>
                /\ data'.holdings = data.holdings]_vars

\* C20: the first operation that saved on the legacy file was a
\* create_portfolio, and the file holds the "default" portfolio with the two
\* flat holdings, then the new portfolio
C20_Witness ==
    /\ last.op = "create_portfolio"
    /\ last.ok
    /\ file.content.holdings = <<>>
    /\ Len(file.content.portfolios) = 2
    /\ file.content.portfolios[1] = DefaultOf(LegacyFile.content.holdings)
    /\ file.content.portfolios[2].id = "p1"
    /\ data = file.content

----------------------------------------------------------------------------
(* Properties of loading, deleting and updating.                           *)

\* C21: a store constructed where no file exists has, before any
\* operation, the one portfolio "default" with no holdings in its index
\* (portfolio_ids() is ["default"], and _iter_holdings("default") does not
\* raise).
C21_MissingFileGivesDefault ==
    (~file.exists /\ last = NoCall) =>
        /\ portfolios_map = <<DefaultOf(<<>>)>>
        /\ InMap(portfolios_map, DEFAULT_PORTFOLIO_ID)

\* the holdings of the aggregate scope, in order
AggregateHoldings(m) == [i \in 1..Len(IterAll(m)) |-> IterAll(m)[i][2]]

\* C22: delete_portfolio is rejected for an id the store does not show and
\* for a portfolio with holdings when force is not set; with force set or
\* the portfolio empty, and two portfolios or more, it removes that
\* portfolio alone, is saved, and neither the id nor its holdings are shown
\* afterwards.
C22_DeleteRemovesOne ==
    [][(last'.op = "delete_portfolio" /\ delete_portfolio(last'.pid, last'.force)) =>
          LET pid == last'.pid
              m == portfolios_map
          IN  /\ ~InMap(m, pid) => ~last'.ok
              /\ (InMap(m, pid) /\ MapGet(m, pid).holdings # <<>> /\ ~last'.force)
                    => ~last'.ok /\ file' = file
              /\ (/\ InMap(m, pid)
                  /\ MapGet(m, pid).holdings = <<>> \/ last'.force
                  /\ Len(m) >= 2)
                    => /\ last'.ok
                       /\ portfolios_map' = SelectSeq(m, LAMBDA q : q.id # pid)
                       /\ Len(portfolios_map') = Len(m) - 1
                       /\ ~InMap(portfolios_map', pid)
                       /\ data'.portfolios = portfolios_map'
                       /\ file' = SavedFile(data')
                       /\ AggregateHoldings(portfolios_map') =
                             AggregateHoldings(SelectSeq(m, LAMBDA q : q.id # pid))
                       /\ Len(AggregateHoldings(portfolios_map')) =
                             Len(AggregateHoldings(m)) - Len(MapGet(m, pid).holdings)]_vars

\* C22: the portfolio "p1" of the two-portfolio file was deleted with force
\* and the store shows the other one alone
C22_Witness ==
    /\ last.op = "delete_portfolio"
    /\ last.ok
    /\ last.force
    /\ last.pid = "p1"
    /\ portfolios_map = <<StructuredFile.content.portfolios[2]>>
    /\ file = SavedFile(data)

\* the first holding of hs with the id, 0 when there is none
FirstWithId(hs, id) ==
    IF \E i \in 1..Len(hs) : hs[i].id = id
    THEN CHOOSE i \in 1..Len(hs) :
            hs[i].id = id /\ \A j \in 1..(i - 1) : hs[j].id # id
    ELSE 0

\* C23: update_portfolio of an id the store does not show is rejected, and
\* update_holding is rejected when no holding of the portfolio has the id;
\* an accepted update changes the given fields of the one object, keeps its
\* id and its other fields, and keeps every other portfolio and holding.
C23_PartialUpdates ==
    [][/\ \A a \in AnyPortfolioUpdateArgs :
             (/\ last'.op = "update_portfolio"
              /\ update_portfolio(last'.pid, a[1], a[2])) =>
                LET m == portfolios_map
                    pid == last'.pid
                IN  IF ~InMap(m, pid) THEN ~last'.ok
                    ELSE /\ last'.ok
                         /\ Len(portfolios_map') = Len(m)
                         /\ \A i \in 1..Len(m) :
                               IF m[i].id # pid THEN portfolios_map'[i] = m[i]
                               ELSE /\ portfolios_map'[i].id = pid
                                    /\ portfolios_map'[i].holdings = m[i].holdings
                                    /\ portfolios_map'[i].name =
                                          IF a[1] = None THEN m[i].name ELSE Given(a[1])
                                    /\ portfolios_map'[i].notes =
                                          IF a[2] = None THEN m[i].notes ELSE Given(a[2])
       /\ \A a \in AnyHoldingUpdateArgs :
             (/\ last'.op = "update_holding"
              /\ update_holding(last'.pid, last'.key, a[1], a[2], a[3])) =>
                LET m == portfolios_map
                    pid == last'.pid
                    at == IF InMap(m, pid)
                          THEN FirstWithId(MapGet(m, pid).holdings, last'.key)
                          ELSE 0
                IN  IF at = 0 THEN ~last'.ok
                    ELSE /\ last'.ok
                         /\ Len(portfolios_map') = Len(m)
                         /\ \A i \in 1..Len(m) :
                               IF m[i].id # pid THEN portfolios_map'[i] = m[i]
                               ELSE LET old == m[i].holdings
                                        new == portfolios_map'[i].holdings
                                    IN  /\ [portfolios_map'[i] EXCEPT !.holdings = old] = m[i]
                                        /\ Len(new) = Len(old)
                                        /\ \A j \in 1..Len(old) : j # at => new[j] = old[j]
                                        /\ new[at].id = old[at].id
                                        /\ new[at].quantity =
                                              IF a[1] = None THEN old[at].quantity ELSE Given(a[1])
                                        /\ new[at].cost_basis =
                                              IF a[2] = None THEN old[at].cost_basis ELSE Given(a[2])
                                        /\ new[at].symbol =
                                              IF a[3] = None THEN old[at].symbol ELSE Given(a[3])]_vars

----------------------------------------------------------------------------
(* Properties of snapshots and summary.                                    *)

\* the fraction r is n/d
RatIs(r, n, d) == r.n * d = n * r.d

\* the holdings a read with this portfolio_id covers
ScopeKnown(portfolio_id) ==
    portfolio_id = None \/ InMap(portfolios_map, Given(portfolio_id))

ScopeHoldings(portfolio_id) ==
    IF portfolio_id = None THEN AggregateHoldings(portfolios_map)
    ELSE MapGet(portfolios_map, Given(portfolio_id)).holdings

\* the price the mapping has for a holding: None when it has no quote for
\* the symbol or the quote has no price
PriceFor(mapping, h) ==
    IF StrUpper(h.symbol) \in DOMAIN mapping
    THEN mapping[StrUpper(h.symbol)].price
    ELSE None

\* C24: snapshots yields one HoldingSnapshot per holding of the scope, in
\* order; market_value is quantity x price when the price is present and
\* absent otherwise; gain_abs is market_value - book_value when
\* market_value is present; gain_pct is market_value / book_value - 1 when
\* market_value is present and book_value > 0, absent otherwise; a holding
\* without a quote in the mapping has no price and raises nothing.
C24_SnapshotArithmetic ==
    (last.op = "snapshots" /\ ScopeKnown(last.pid)) =>
        /\ last.ok
        /\ Len(last.ret) = Len(ScopeHoldings(last.pid))
        /\ \A i \in 1..Len(last.ret) :
              LET snap == last.ret[i]
                  h == ScopeHoldings(last.pid)[i]
                  price == PriceFor(last.quotes, h)
                  q == h.quantity
                  c == h.cost_basis
              IN  /\ snap.holding = h
                  /\ snap.quote.price = price
                  /\ IF price = None
                     THEN /\ snap.market_value = None
                          /\ snap.gain_abs = None
                          /\ snap.gain_pct = None
                     ELSE /\ snap.market_value # None
                          /\ RatIs(Given(snap.market_value), q * Given(price),
                                   NumberScale * NumberScale)
                          /\ snap.gain_abs # None
                          /\ RatIs(Given(snap.gain_abs),
                                   q * Given(price) - q * c,
                                   NumberScale * NumberScale)
                          /\ IF q * c > 0
                             THEN /\ snap.gain_pct # None
                                  /\ RatIs(Given(snap.gain_pct),
                                           q * Given(price) - q * c, q * c)
                             ELSE snap.gain_pct = None

\* the aggregate snapshots of the two-portfolio file with a price for
\* "AAPL" only: the holding of "aapl" with no book value has a market
\* value and no gain_pct, "BRK.B" and "X" have no price
C24_Witness ==
    /\ last.op = "snapshots"
    /\ last.ok
    /\ last.pid = None
    /\ file = FractionFile
    /\ DOMAIN last.quotes = {AAPL}
    /\ last.quotes[AAPL].price = Some(28)
    /\ Len(last.ret) = 4
    /\ last.ret[1].gain_pct = Some(Rat(27, 1))
    /\ last.ret[2].market_value = None
    /\ last.ret[3].market_value = Some(RatZero)
    /\ last.ret[3].gain_pct = None

RECURSIVE SumBook(_)
\* sixteen times the sum of quantity x cost_basis over holdings
SumBook(hs) ==
    IF hs = <<>> THEN 0
    ELSE Head(hs).quantity * Head(hs).cost_basis + SumBook(Tail(hs))

RECURSIVE SumMarket(_, _)
\* sixteen times the sum of quantity x price over the holdings with a price
SumMarket(hs, mapping) ==
    IF hs = <<>> THEN 0
    ELSE (IF PriceFor(mapping, Head(hs)) = None THEN 0
          ELSE Head(hs).quantity * Given(PriceFor(mapping, Head(hs))))
         + SumMarket(Tail(hs), mapping)

\* r is n/d rounded to k decimals: a multiple of 10^-k at most half a step
\* from n/d (d > 0), the even multiple when two are as near
RoundedTo(r, n, d, k) ==
    /\ Pow10(k) % r.d = 0
    /\ LET m == r.n * (Pow10(k) \div r.d)
           gap == Abs(2 * Pow10(k) * n - 2 * m * d)
       IN  /\ gap <= d
           /\ gap = d => m % 2 = 0

\* C25 as stated: the summary reports the sums themselves, and
\* total_market / total_book - 1 whenever total_book is not zero.
C25_SummaryExact ==
    (last.op = "summary" /\ ScopeKnown(last.pid)) =>
        LET book == SumBook(ScopeHoldings(last.pid))
            market == SumMarket(ScopeHoldings(last.pid), last.quotes)
            unit == NumberScale * NumberScale
        IN  /\ last.ok
            /\ RatIs(last.ret.total_book, book, unit)
            /\ RatIs(last.ret.total_market, market, unit)
            /\ RatIs(last.ret.total_gain, market - book, unit)
            /\ book # 0 => RatIs(last.ret.total_gain_pct, market - book, book)
            /\ last.ret.holding_count = Len(ScopeHoldings(last.pid))

\* C25: summary over a scope reports, each rounded half to even, to 2
\* decimals the sum of quantity x cost_basis, the sum of the market values
\* present in its snapshots and their difference, to 4 decimals
\* total_market / total_book - 1, which is 0 when total_book is 0, and the
\* number of holdings in scope; "p1" holding 10 of "X" at cost 5 with price
\* 7 gives 50, 70, 20 and 0.4; summary with an unknown portfolio id fails.
C25_SummaryRounded ==
    last.op = "summary" =>
        /\ last.ok = ScopeKnown(last.pid)
        /\ last.ok =>
              LET book == SumBook(ScopeHoldings(last.pid))
                  market == SumMarket(ScopeHoldings(last.pid), last.quotes)
                  unit == NumberScale * NumberScale
              IN  /\ RoundedTo(last.ret.total_book, book, unit, 2)
                  /\ RoundedTo(last.ret.total_market, market, unit, 2)
                  /\ RoundedTo(last.ret.total_gain, market - book, unit, 2)
                  /\ IF book = 0
                     THEN last.ret.total_gain_pct = RatZero
                     ELSE RoundedTo(last.ret.total_gain_pct,
                                    market - book, book, 4)
                  /\ last.ret.holding_count = Len(ScopeHoldings(last.pid))
        /\ (/\ file = ExampleFile
            /\ last.pid = Some("p1")
            /\ SymbolX \in DOMAIN last.quotes
            /\ last.quotes[SymbolX].price = Some(7 * NumberScale)) =>
              /\ last.ret.total_book = Rat(50, 1)
              /\ last.ret.total_market = Rat(70, 1)
              /\ last.ret.total_gain = Rat(20, 1)
              /\ last.ret.total_gain_pct = Rat(4, 10)

\* the summary of the second portfolio of the two-portfolio file with "X"
\* at 7 and no other price: book 2.3125 is reported as 2.31, market 12.25,
\* gain 9.9375 as 9.94, and 4.297297... as 4.2973
C25_Witness ==
    /\ last.op = "summary"
    /\ last.ok
    /\ file = FractionFile
    /\ last.pid = Some("p2")
    /\ DOMAIN last.quotes = {SymbolX}
    /\ last.quotes[SymbolX].price = Some(28)
    /\ last.ret.total_book = Rat(231, 100)
    /\ last.ret.total_market = Rat(1225, 100)
    /\ last.ret.total_gain = Rat(994, 100)
    /\ last.ret.total_gain_pct = Rat(42973, 10000)
    /\ last.ret.holding_count = 3

\* the summaries of the single portfolios of the store, in index order
PortfolioSummaries(mapping) ==
    [i \in 1..Len(portfolios_map) |->
        Summary(data, portfolios_map, mapping, Some(portfolios_map[i].id), now)]

RECURSIVE SumCounts(_)
SumCounts(xs) == IF xs = <<>> THEN 0 ELSE Head(xs) + SumCounts(Tail(xs))

\* C26: for every store and every quote mapping, the total_book of the
\* aggregate summary is the sum of the total_book of the summaries of the
\* single portfolios, and its holding_count is the sum of their
\* holding_count.
C26_AggregateIsSum ==
    (last.op = "summary" /\ last.pid = None) =>
        LET aggregate == last.ret
            parts == PortfolioSummaries(last.quotes)
        IN  /\ aggregate.total_book =
                  RatSum([i \in 1..Len(parts) |-> parts[i].total_book])
            /\ aggregate.holding_count =
                  SumCounts([i \in 1..Len(parts) |-> parts[i].holding_count])

\* the fetched_at of the quotes the mapping has for the holdings of a scope
IncludedTimes(mapping, portfolio_id) ==
    {mapping[StrUpper(ScopeHoldings(portfolio_id)[i].symbol)].fetched_at :
        i \in {j \in 1..Len(ScopeHoldings(portfolio_id)) :
                  StrUpper(ScopeHoldings(portfolio_id)[j].symbol)
                      \in DOMAIN mapping}} \ {-1}

\* C27: the refreshed_at of a summary is the latest fetched_at among the
\* quotes of the holdings of its scope, whatever other quotes the mapping
\* holds, and the current time when none of those quotes has a fetched_at.
C27_RefreshedAtOfScope ==
    (last.op = "summary" /\ last.ok) =>
        LET times == IncludedTimes(last.quotes, last.pid)
        IN  IF times = {} THEN last.ret.refreshed_at = now
            ELSE /\ last.ret.refreshed_at \in times
                 /\ \A t \in times : t <= last.ret.refreshed_at

----------------------------------------------------------------------------
(* Properties of persistence and of the numbers stored.                    *)

\* the id, symbol, quantity and cost_basis of holdings, in order
HoldingFigures(hs) ==
    [i \in 1..Len(hs) |->
        <<hs[i].id, hs[i].symbol, hs[i].quantity, hs[i].cost_basis>>]

\* the base currency and the portfolios of a PortfolioFile, in order, each
\* with the figures of its holdings
FileFigures(d) ==
    <<d.base_currency,
      [i \in 1..Len(d.portfolios) |->
          <<d.portfolios[i].id, HoldingFigures(d.portfolios[i].holdings)>>],
      HoldingFigures(d.holdings)>>

\* C28: a reload that follows a save succeeds and yields the base currency,
\* the portfolios and the holdings the store had, in the same order, with
\* the same id, symbol, quantity and cost_basis; a save that follows a
\* reload of a file in the structured layout leaves the file holding what
\* it held.
C28_SaveReloadRoundTrip ==
    [][/\ (last.op = "save" /\ last'.op = "reload") =>
              /\ last'.ok
              /\ FileFigures(data') = FileFigures(data)
       /\ (/\ last.op = "reload"
           /\ last.ok
           /\ last'.op = "save"
           /\ file.exists
           /\ ModelValidate(file.content).portfolios # <<>>) =>
              ModelValidate(file'.content) = ModelValidate(file.content)]_vars

\* every holding of a PortfolioFile has quantity >= 0 and cost_basis >= 0
NonNegative(d) ==
    /\ \A i \in 1..Len(d.holdings) :
          d.holdings[i].quantity >= 0 /\ d.holdings[i].cost_basis >= 0
    /\ \A i \in 1..Len(d.portfolios) :
          \A j \in 1..Len(d.portfolios[i].holdings) :
              /\ d.portfolios[i].holdings[j].quantity >= 0
              /\ d.portfolios[i].holdings[j].cost_basis >= 0

\* C29: in every reachable state every holding of the store, in memory and
\* in the file, has quantity >= 0 and cost_basis >= 0, and no add_holding
\* or update_holding that succeeded has returned a holding with a number
\* below 0.
C29_NumbersNeverNegative ==
    /\ NonNegative(data)
    /\ file.exists => NonNegative(ModelValidate(file.content))
    /\ (last.op \in {"add_holding", "update_holding"} /\ last.ok) =>
          (last.ret.quantity >= 0 /\ last.ret.cost_basis >= 0)

----------------------------------------------------------------------------
(* Properties of the application's holding operations.                     *)

\* C30: add_holding, update_holding and remove_holding of the application
\* start no refresh_now: no step of one of them adds a refresh, with its
\* fetches from the provider, to the ones in flight.
C30_HoldingOpsDoNotRefresh ==
    [][(/\ last' # last
        /\ last'.op \in {"add_holding", "update_holding", "remove_holding"}) =>
           adhoc' = adhoc]_vars

\* C31: add_holding of the application with a symbol and no name, on a
\* portfolio of the store and with numbers that validate, is rejected with
\* "name must be provided" and leaves the portfolios and the file as they
\* were.
C31_AddHoldingRequiresName ==
    [][\A a \in AppHoldingArgs :
          (/\ a[2] # <<>>
           /\ a[3] >= 0
           /\ a[4] = NoneStr
           /\ InMap(portfolios_map, a[1])
           /\ Len(adhoc) < MaxAdhoc
           /\ TotalHoldings(data) < MaxHoldings
           /\ last'.op = "add_holding"
           /\ AppAddHoldingWith(a)) =>
              /\ ~last'.ok
              /\ last'.err = "name must be provided"
              /\ data' = data
              /\ file' = file]_vars

----------------------------------------------------------------------------
(* Properties under concurrent callers.                                    *)

\* the periodic tasks that have not ended
AliveLoops == {t \in 1..Len(loops) : loops[t].pc # "ended"}

\* C32: under every interleaving of start() and stop() calls on one
\* poller, at most one periodic task is alive, and every periodic task
\* alive is the one the poller holds in _task.
C32_OneLoopHeld ==
    /\ Cardinality(AliveLoops) <= 1
    /\ \A t \in AliveLoops : task = t

\* the fetches in flight for a cache key: the _get_symbol tasks that wait
\* for their worker thread
FetchesInFlight(key) ==
    {<<c, i>> \in (1..Len(calls)) \X (1..MaxInFlight) :
        /\ i <= Len(calls[c].tasks)
        /\ calls[c].tasks[i].key = key
        /\ calls[c].tasks[i].pc = "fetching"}

\* C33: at most one provider fetch is in flight per cache key, within one
\* get_quotes call and across overlapping calls.
C33_OneFetchPerKey ==
    \A c \in 1..Len(calls) : \A i \in 1..Len(calls[c].tasks) :
        Cardinality(FetchesInFlight(calls[c].tasks[i].key)) <= 1

\* C34: whenever the cache entry of a key is overwritten, the fetched_at of
\* the new quote is not earlier than the fetched_at of the quote replaced.
C34_NeverOlder ==
    [][\A key \in DOMAIN cache :
          (key \in DOMAIN cache' /\ cache'[key] # cache[key]) =>
              cache'[key].quote.fetched_at >= cache[key].quote.fetched_at]_vars

\* C35: when no reload_portfolio is in flight, the in-memory portfolios are
\* the content of the file, and every holding an add_holding has saved to
\* the file is in the in-memory portfolios.
C35_ReloadRaceKeepsStore ==
    adhoc = <<>> =>
        /\ file.exists
        /\ data = ModelValidate(file.content)
        /\ portfolios_map = data.portfolios
        /\ \A i \in 1..Len(IterAll(file.content.portfolios)) :
              \E j \in 1..Len(IterAll(portfolios_map)) :
                  IterAll(portfolios_map)[j][2] =
                      IterAll(file.content.portfolios)[i][2]

----------------------------------------------------------------------------
(* Properties of reload.                                                   *)

\* C36: a reload that fails reports the error and leaves the in-memory
\* data and the portfolio-id index exactly as they were.
C36_FailedReloadKeepsStore ==
    [][(last'.op = "reload" /\ ~last'.ok /\ ReloadFrom(file)) =>
           /\ last'.err # ""
           /\ data' = data
           /\ portfolios_map' = portfolios_map]_vars

\* the holdings of the in-memory data, flat list and portfolios
DataHoldings(d) ==
    {d.holdings[i] : i \in 1..Len(d.holdings)}
        \cup UNION {{d.portfolios[p].holdings[i] :
                        i \in 1..Len(d.portfolios[p].holdings)} :
                    p \in 1..Len(d.portfolios)}

\* C37: after every reload that succeeds, every portfolio of the index is a
\* portfolio of the in-memory data, or the default portfolio when the data
\* has none, every holding _iter_holdings yields is a holding of the data,
\* and every portfolio and holding of the data is in the index.
C37_IndexDescribesData ==
    (last.op = "reload" /\ last.ok) =>
        /\ \A p \in 1..Len(portfolios_map) :
              \/ \E q \in 1..Len(data.portfolios) :
                    data.portfolios[q].id = portfolios_map[p].id
              \/ /\ data.portfolios = <<>>
                 /\ portfolios_map[p].id = DEFAULT_PORTFOLIO_ID
        /\ \A i \in 1..Len(IterAll(portfolios_map)) :
              IterAll(portfolios_map)[i][2] \in DataHoldings(data)
        /\ \A q \in 1..Len(data.portfolios) :
              InMap(portfolios_map, data.portfolios[q].id)
        /\ \A h \in DataHoldings(data) :
              \E i \in 1..Len(IterAll(portfolios_map)) :
                  IterAll(portfolios_map)[i][2] = h

----------------------------------------------------------------------------
(* Properties of the listing of portfolios.                                *)

\* the sum of holding_count over the entries from..Len(l) of a listing
CountFrom(l, from) ==
    LET RECURSIVE Sum(_)
        Sum(i) == IF i < from THEN 0 ELSE l[i].holding_count + Sum(i - 1)
    IN  Sum(Len(l))

\* C38: the ids of list_portfolios are pairwise distinct: the aggregate
\* entry "all" is first, one entry per portfolio follows, the aggregate's
\* holding_count is the sum of the others, and no portfolio that
\* create_portfolio made has the aggregate id.
C38_ListingIdsDistinct ==
    LET l == list_portfolios(portfolios_map)
    IN  /\ \A i, j \in 1..Len(l) : i # j => l[i].id # l[j].id
        /\ l[1].id = AGGREGATE_PORTFOLIO_ID
        /\ Len(l) = 1 + Len(portfolios_map)
        /\ \A i \in 1..Len(portfolios_map) : l[i + 1].id = portfolios_map[i].id
        /\ l[1].holding_count = CountFrom(l, 2)
        /\ ~InMap(portfolios_map, AGGREGATE_PORTFOLIO_ID)

----------------------------------------------------------------------------
(* Properties of the total gain.                                           *)

RECURSIVE SumGain(_, _)
\* sixteen times the sum of quantity x price - quantity x cost_basis over
\* the holdings with a price
SumGain(hs, mapping) ==
    IF hs = <<>> THEN 0
    ELSE (IF PriceFor(mapping, Head(hs)) = None THEN 0
          ELSE Head(hs).quantity * Given(PriceFor(mapping, Head(hs)))
                   - Head(hs).quantity * Head(hs).cost_basis)
         + SumGain(Tail(hs), mapping)

\* C39: the total_gain of a summary is, rounded to 2 decimals, the sum of
\* gain_abs over the snapshots of its scope that have a price; a holding
\* without a price contributes nothing to it.
C39_TotalGainOfPriced ==
    (last.op = "summary" /\ last.ok) =>
        RoundedTo(last.ret.total_gain,
                  SumGain(ScopeHoldings(last.pid), last.quotes),
                  NumberScale * NumberScale, 2)

============================================================================
